---- MODULE Spec2Model ----
(***************************************************************************)
(* The Scribe partition worker (ScribeLambda): batch handler, protocol     *)
(* state drain, client/service summaries and the coalescing checkpoint     *)
(* writer, modelled as a state machine.                                    *)
(*                                                                         *)
(* The handler of a batch is cooperative: it runs synchronously from one   *)
(* await to the next.  Every action below is one such run; completions of  *)
(* checkpoint operations and idle-timer callbacks are separate actions     *)
(* that can only happen while the handler is idle or suspended.            *)
(***************************************************************************)
EXTENDS Integers, Sequences, FiniteSets, TLC

VARIABLES
    cfg,    \* configuration of the instance (constructor arguments, serviceConfiguration)
    log,    \* the document's sequenced ops, log[n] is the op with sequenceNumber n
    lam,    \* the fields of the ScribeLambda instance
    cur,    \* where the (single) handler call is suspended
    io,     \* collaborators: checkpoint manager, stores, upstream context, producer
    fed     \* the non-duplicate batches handled so far, in order, each with the
            \* number of ops the instance had accepted when it arrived

vars == <<cfg, log, lam, cur, io, fed>>

\* ------------------------------------------------------------------ bounds
MaxSeq == 3            \* ops sequenced for the document
MaxBatches == 3        \* batches with a new offset
MaxRedeliveries == 1   \* batches delivered again with an offset already handled
MaxBatchLen == 2       \* ops in one boxcar

\* -------------------------------------------------------- small utilities
Undef == -1            \* an absent number (undefined)

Max(a, b) == IF a >= b THEN a ELSE b

Last(s) == s[Len(s)]

RECURSIVE DropWhileLeq(_, _)
\* removes the front of an ascending sequence of numbers while it is <= n
DropWhileLeq(s, n) ==
    IF s # <<>> /\ Head(s) <= n THEN DropWhileLeq(Tail(s), n) ELSE s

FilterGt(s, n) == SelectSeq(s, LAMBDA x : x > n)

Range(s) == { s[i] : i \in 1..Len(s) }

FromTo(a, b) == [ i \in 1..(IF b >= a THEN b - a + 1 ELSE 0) |-> a + i - 1 ]

\* the queued message of a handler call: a fresh object (id) carrying an offset
Msg(id, offset) == [id |-> id, offset |-> offset]

NoMsg == Msg(0, Undef)

\* --------------------------------------------------------------- the ops
OpTypes == {"op", "join", "leave", "summarize", "summaryAck", "noClient"}

\* res is the answer the summary writer and the producer give when the op is
\* handled; it is "na" until the handler has asked.
Op(seq, msn, ref, type, flag, ssn) ==
    [seq |-> seq, msn |-> msn, ref |-> ref, type |-> type,
     flag |-> flag, ssn |-> ssn, res |-> "na"]

\* The ops deli can sequence at number n after an op with minimumSequenceNumber m:
\* the MSN never decreases and stays below n, except for NoClient where
\* sequenceNumber = referenceSequenceNumber = minimumSequenceNumber.
\* flag is serverMetadata.deliAcked for a Summarize, "contents is a string that
\* does not parse" for an Op, and "the content travels in data" for a SummaryAck.
AllOps(n, m) ==
    LET msns == {m, n - 1} IN
      { Op(n, x, n - 1, "op", f, Undef) : x \in msns, f \in BOOLEAN }
      \cup { Op(n, x, n - 1, t, FALSE, Undef) : x \in msns, t \in {"join", "leave"} }
      \cup { Op(n, x, r, "summarize", FALSE, Undef) : x \in msns, r \in {m, n - 1} }
      \cup { Op(n, n - 1, n - 1, "summarize", TRUE, Undef) }
      \cup { Op(n, x, n - 1, "summaryAck", f, k) :
                 x \in msns, f \in BOOLEAN, k \in {y \in {n - 2, n - 1} : y >= 1} }
      \cup { Op(n, n, n, "noClient", FALSE, Undef) }

\* The ops the environments below sequence: the checkpoint writer is explored with
\* plain ops and NoClient only, op processing with every type.
Sequenceable(n, m, alphabet) ==
    CASE alphabet = "ckpt" ->
           { o \in AllOps(n, m) : o.type \in {"op", "noClient"} /\ ~o.flag /\ o.msn >= n - 1 }
      [] alphabet = "clients" ->
           { o \in AllOps(n, m) : o.type \in {"op", "join", "noClient"} /\ ~o.flag /\ o.msn >= n - 1 }
      [] alphabet = "drain" ->
           { o \in AllOps(n, m) :
               /\ o.type \in {"op", "summarize"}
               /\ o.type = "summarize" => ~o.flag }
      [] alphabet = "summaries" ->
           { o \in AllOps(n, m) :
               /\ o.type \in {"op", "summarize", "summaryAck"}
               /\ o.type = "op" => ~o.flag
               /\ o.type = "summaryAck" => ~o.flag /\ o.msn = m /\ o.ssn = n - 1 }
      [] alphabet = "acks" ->
           { o \in AllOps(n, m) :
               /\ o.type \in {"op", "summarize", "summaryAck", "noClient"}
               /\ o.type \in {"op", "summarize"} => ~o.flag /\ o.msn = m }
      [] alphabet = "proc" ->
           { o \in AllOps(n, m) :
               /\ o.type \in {"op", "summarize", "summaryAck", "noClient"}
               /\ ~o.flag
               /\ o.type \in {"summarize", "summaryAck"} => o.msn = m
               /\ o.type = "summaryAck" => o.ssn = n - 1 }
      [] OTHER -> AllOps(n, m)

\* ------------------------------------------------------- protocol handler
Client == [clientId |-> "c1", user |-> "u1"]

\* ProtocolOpHandler: sequence number, MSN and the quorum members
ProtocolHandler(seq, msn, members) ==
    [sequenceNumber |-> seq, minimumSequenceNumber |-> msn, members |-> members]

\* getProtocolState(scrubUserData): the serializable snapshot; scrubbing replaces
\* the identifying fields of the member entries by a placeholder
GetProtocolState(ph, scrubUserData) ==
    [sequenceNumber |-> ph.sequenceNumber,
     minimumSequenceNumber |-> ph.minimumSequenceNumber,
     members |-> IF scrubUserData
                 THEN { [m EXCEPT !.user = "scrubbed"] : m \in ph.members }
                 ELSE ph.members]

\* initializeProtocol(protocolState)
InitializeProtocol(protocolState) ==
    ProtocolHandler(protocolState.sequenceNumber,
                    protocolState.minimumSequenceNumber,
                    protocolState.members)

\* processMessage(op, false): counters, then membership
ProcessMessage(ph, op) ==
    [ph EXCEPT !.sequenceNumber = op.seq,
               !.minimumSequenceNumber = op.msn,
               !.members = CASE op.type = "join" -> @ \cup {Client}
                             [] op.type = "leave" -> @ \ {m \in @ : m.clientId = Client.clientId}
                             [] OTHER -> @]

\* JSON.parse of string contents that do not parse throws inside the drain
DrainThrows(op) == op.type = "op" /\ op.flag

\* ---------------------------------------------------------- configuration
MaxMessages == 2       \* checkpointHeuristics.maxMessages
MaxTracked == 1        \* maxTrackedServiceSummaryVersionsSinceLastClientSummary
MaxPendingCkptLen == 1 \* maxPendingCheckpointMessagesLength

BaseCfg ==
    [isExternal |-> FALSE, ignoreStorageException |-> FALSE,
     localCheckpointEnabled |-> TRUE, heuristicsEnable |-> TRUE,
     kafkaCheckpointOnReprocessingOp |-> TRUE, generateServiceSummary |-> TRUE,
     isEphemeralContainer |-> FALSE, transientTenant |-> FALSE,
     disableTransientTenantFiltering |-> FALSE,
     clearCacheAfterServiceSummary |-> FALSE, hasReader |-> TRUE,
     enablePendingCheckpointMessages |-> TRUE,
     scrubUserDataInSummaries |-> FALSE,
     scrubUserDataInGlobalCheckpoints |-> FALSE,
     scrubUserDataInLocalCheckpoints |-> FALSE]

\* isGlobalCheckpoint(noActiveClients, globalCheckpointOnly)
IsGlobalCheckpoint(noActiveClients, globalCheckpointOnly) ==
    noActiveClients \/ globalCheckpointOnly

\* ------------------------------------------------------------ construction
\* the IScribe record of a document that has no history
FreshScribe ==
    [lastSummarySequenceNumber |-> Undef, lastClientSummaryHead |-> Undef,
     logOffset |-> 0, minimumSequenceNumber |-> 0,
     protocolState |-> GetProtocolState(ProtocolHandler(0, 0, {}), FALSE),
     sequenceNumber |-> 0, validParentSummaries |-> <<>>, isCorrupt |-> FALSE,
     protocolHead |-> 0]

\* new DocumentCheckpointManager()
NewDocumentCheckpointManager ==
    [noActiveClients |-> FALSE, currentCheckpointMessage |-> NoMsg,
     rawMessagesSinceCheckpoint |-> 0, idleTimer |-> <<>>]

\* the constructor: lastOffset and setStateFromCheckpoint from the scribe record,
\* the protocol handler and the pending ops as handed in by the factory.
\* validParentSummaries is <<>> when undefined and <<list>> when an array.
NewLambda(c, scribe, protocolHandler, messages) ==
    [lastOffset |-> scribe.logOffset,
     pendingCheckpointScribe |-> <<>>,
     pendingCheckpointOffset |-> <<>>,
     pendingP |-> FALSE,
     pendingCheckpointMessages |-> <<>>,
     pendingMessages |-> messages,
     sequenceNumber |-> scribe.sequenceNumber,
     minSequenceNumber |-> scribe.minimumSequenceNumber,
     lastClientSummaryHead |-> scribe.lastClientSummaryHead,
     lastSummarySequenceNumber |-> scribe.lastSummarySequenceNumber,
     validParentSummaries |-> scribe.validParentSummaries,
     isDocumentCorrupt |-> scribe.isCorrupt,
     clearCache |-> FALSE,
     closed |-> FALSE,
     dcm |-> NewDocumentCheckpointManager,
     globalCheckpointOnly |-> ~c.localCheckpointEnabled,
     lastCheckpointInsertedNumber |-> 0,
     protocolHandler |-> protocolHandler,
     protocolHead |-> scribe.protocolHead]

\* a faulty generateScribeCheckpoint that never reports the document as corrupt
GenerateScribeCheckpointNotCorrupt(l, logOffset, scrubUserData) ==
    [lastSummarySequenceNumber |-> l.lastSummarySequenceNumber,
     lastClientSummaryHead |-> l.lastClientSummaryHead,
     logOffset |-> logOffset,
     minimumSequenceNumber |-> l.minSequenceNumber,
     protocolState |-> GetProtocolState(l.protocolHandler, scrubUserData),
     sequenceNumber |-> l.sequenceNumber,
     validParentSummaries |-> l.validParentSummaries,
     isCorrupt |-> FALSE,
     protocolHead |-> l.protocolHead]

\* ------------------------------------------------------------- checkpoints
\* generateScribeCheckpoint(logOffset, scrubUserData)
GenerateScribeCheckpoint(l, logOffset, scrubUserData) ==
    [lastSummarySequenceNumber |-> l.lastSummarySequenceNumber,
     lastClientSummaryHead |-> l.lastClientSummaryHead,
     logOffset |-> logOffset,
     minimumSequenceNumber |-> l.minSequenceNumber,
     protocolState |-> GetProtocolState(l.protocolHandler, scrubUserData),
     sequenceNumber |-> l.sequenceNumber,
     validParentSummaries |-> l.validParentSummaries,
     isCorrupt |-> l.isDocumentCorrupt,
     protocolHead |-> l.protocolHead]


\* The operators below thread w = [lam |-> instance fields, io |-> collaborators].
\* io.calls is every checkpointManager call made so far with its result,
\* io.inflight the indices of the calls that have not settled, io.opStore the
\* sequence numbers inserted into the op store, io.acked the context.checkpoint
\* calls that returned, io.sent the producer output, io.requests the calls of
\* checkpointCore, io.dropped the queued requests that were replaced,
\* io.writerCalls the number of summary writer calls, io.accepted the ops that
\* passed the skip checks of the loop, io.deliveries the handler calls, io.throws
\* those that were rejected, io.reads the ranges asked of the Pending Message
\* Reader, io.applied the ops passed to protocolHandler.processMessage, each with
\* the handler's sequenceNumber at that moment, io.dispatched the ops that
\* reached the dispatch on the op type, each with the handler's sequenceNumber
\* before and after the drain to its minimumSequenceNumber, with protocolHead and
\* with lastSummarySequenceNumber, io.handed the queued message of the latest
\* handler call, io.scribes the checkpoints handed to the summary writers.
NewIo ==
    [calls |-> <<>>, inflight |-> <<>>, opStore |-> {}, acked |-> <<>>,
     sent |-> <<>>, requests |-> <<>>, dropped |-> {}, writerCalls |-> 0,
     accepted |-> <<>>, deliveries |-> 0, throws |-> 0,
     reads |-> <<>>, applied |-> <<>>, dispatched |-> <<>>, handed |-> NoMsg,
     scribes |-> <<>>]

\* the synchronous start of the persistence operation in checkpointCore:
\* checkpointManager.delete(protocolHead, true) when clearCache, otherwise
\* writeCheckpoint up to its await of checkpointManager.write
StartPersist(w, checkpoint, queuedMessage, clearCache, skipKafkaCheckpoint) ==
    LET l == w.lam
        inserts == FilterGt(l.pendingCheckpointMessages, l.lastCheckpointInsertedNumber)
        call == [kind |-> IF clearCache THEN "delete" ELSE "write",
                 checkpoint |-> checkpoint,
                 msg |-> queuedMessage,
                 clearCache |-> clearCache,
                 skip |-> skipKafkaCheckpoint,
                 inserts |-> IF clearCache THEN <<>> ELSE inserts,
                 protocolHead |-> l.protocolHead,
                 noActiveClients |-> l.dcm.noActiveClients,
                 globalOnly |-> l.globalCheckpointOnly,
                 isCorrupt |-> l.isDocumentCorrupt,
                 result |-> "pending"]
    IN [w EXCEPT !.lam.pendingP = TRUE,
                 !.io.calls = Append(@, call),
                 !.io.inflight = Append(@, Len(w.io.calls) + 1)]

\* a faulty queueing branch that keeps the first queued pair instead of the last
QueueKeepsFirst(w, checkpoint, queuedMessage) ==
    IF w.lam.pendingCheckpointScribe # <<>> /\ w.lam.pendingCheckpointOffset # <<>>
    THEN [w EXCEPT !.io.dropped = @ \cup {queuedMessage.id}]
    ELSE [w EXCEPT !.lam.pendingCheckpointScribe = <<checkpoint>>,
                   !.lam.pendingCheckpointOffset = <<queuedMessage>>]

\* the queueing branch of checkpointCore: the single successor slot is overwritten
QueueCheckpoint(w, checkpoint, queuedMessage) ==
    [w EXCEPT !.lam.pendingCheckpointScribe = <<checkpoint>>,
              !.lam.pendingCheckpointOffset = <<queuedMessage>>,
              !.io.dropped = @ \cup { m.id : m \in Range(w.lam.pendingCheckpointOffset) }]

\* a faulty checkpointCore that starts a persistence operation without looking
\* at pendingP
StartWithoutSlot(w, checkpoint, queuedMessage, clearCache, skipKafkaCheckpoint) ==
    IF w.lam.closed THEN w
    ELSE StartPersist(w, checkpoint, queuedMessage, clearCache, skipKafkaCheckpoint)

\* a faulty checkpointCore that does not look at the closed flag
CheckpointCoreAfterClose(w, checkpoint, queuedMessage, clearCache, skipKafkaCheckpoint) ==
    IF w.lam.pendingP THEN QueueCheckpoint(w, checkpoint, queuedMessage)
    ELSE StartPersist(w, checkpoint, queuedMessage, clearCache, skipKafkaCheckpoint)

\* checkpointCore(checkpoint, queuedMessage, clearCache, skipKafkaCheckpoint)
CheckpointCore(w, checkpoint, queuedMessage, clearCache, skipKafkaCheckpoint) ==
    IF w.lam.closed THEN w
    ELSE IF w.lam.pendingP THEN QueueCheckpoint(w, checkpoint, queuedMessage)
    ELSE StartPersist(w, checkpoint, queuedMessage, clearCache, skipKafkaCheckpoint)

\* a call of checkpointCore by the handler or the idle timer (recorded in io.requests)
RequestCheckpoint(w, checkpoint, queuedMessage, clearCache, skip, reason) ==
    CheckpointCore(
        [w EXCEPT !.io.requests = Append(@,
            [msg |-> queuedMessage, reason |-> reason, clearCache |-> clearCache,
             skip |-> skip, checkpoint |-> checkpoint, closed |-> w.lam.closed,
             global |-> IsGlobalCheckpoint(w.lam.dcm.noActiveClients,
                                           w.lam.globalCheckpointOnly)])],
        checkpoint, queuedMessage, clearCache, skip)

\* a faulty trim that caps the buffer by its length alone and ignores protocolHead
AfterWriteCapsByLength(l, inserts) ==
    IF inserts = <<>> THEN l
    ELSE LET lastInserted == Last(inserts)
             cappedNumber == lastInserted - MaxPendingCkptLen
         IN [l EXCEPT !.lastCheckpointInsertedNumber = lastInserted,
                      !.pendingCheckpointMessages = DropWhileLeq(@, cappedNumber)]

\* the rest of writeCheckpoint after checkpointManager.write has resolved
AfterWrite(l, inserts) ==
    IF inserts = <<>> THEN l
    ELSE LET lastInserted == Last(inserts)
             cappedNumber == Max(l.protocolHead, lastInserted - MaxPendingCkptLen)
         IN [l EXCEPT !.lastCheckpointInsertedNumber = lastInserted,
                      !.pendingCheckpointMessages = DropWhileLeq(@, cappedNumber)]

\* the end of the .then callback: the queued successor, if any, is started with
\* the clearCache of the call that has just settled
DrainSuccessor(w, clearCache) ==
    LET pendingScribe == w.lam.pendingCheckpointScribe
        pendingOffset == w.lam.pendingCheckpointOffset
    IN IF pendingScribe # <<>> /\ pendingOffset # <<>>
       THEN CheckpointCore(
                [w EXCEPT !.lam.pendingCheckpointScribe = <<>>,
                          !.lam.pendingCheckpointOffset = <<>>],
                pendingScribe[1], pendingOffset[1], clearCache, FALSE)
       ELSE w

\* a faulty .then callback that acknowledges whatever databaseCheckpointFailed says
ThenAcksFailedWrite(w, call, failed, ackThrows) ==
    LET w1 == [w EXCEPT !.lam.pendingP = FALSE] IN
    IF ~call.skip /\ ~ackThrows
    THEN DrainSuccessor(
             [w1 EXCEPT !.io.acked = Append(@, [msg |-> call.msg, path |-> "checkpoint"])],
             call.clearCache)
    ELSE DrainSuccessor(w1, call.clearCache)

\* the .then callback of checkpointCore; failed is databaseCheckpointFailed,
\* ackThrows says that context.checkpoint throws (the outer .catch logs it)
ThenCallback(w, call, failed, ackThrows) ==
    LET w1 == [w EXCEPT !.lam.pendingP = FALSE] IN
    IF ~call.skip /\ ~failed
    THEN IF ackThrows THEN w1
         ELSE DrainSuccessor(
                  [w1 EXCEPT !.io.acked = Append(@, [msg |-> call.msg, path |-> "checkpoint"])],
                  call.clearCache)
    ELSE DrainSuccessor(w1, call.clearCache)

\* a faulty settlement in which a rejected checkpointManager.delete still runs
\* the .then callback
SettleThenOnRejectedDelete(w, i, ok, ackThrows) ==
    LET call == w.io.calls[i]
        w0 == [w EXCEPT !.io.calls[i].result = IF ok THEN "ok" ELSE "failed",
                        !.io.inflight = SelectSeq(@, LAMBDA j : j # i)]
    IN CASE call.kind = "write" /\ ok ->
              ThenCallback([w0 EXCEPT !.io.opStore = @ \cup Range(call.inserts),
                                      !.lam = AfterWrite(@, call.inserts)],
                           call, FALSE, ackThrows)
         [] call.kind = "write" /\ ~ok -> ThenCallback(w0, call, TRUE, ackThrows)
         [] OTHER -> ThenCallback(w0, call, FALSE, ackThrows)

\* the promise of call i settles: ok says whether the checkpoint manager resolved
Settle(w, i, ok, ackThrows) ==
    LET call == w.io.calls[i]
        w0 == [w EXCEPT !.io.calls[i].result = IF ok THEN "ok" ELSE "failed",
                        !.io.inflight = SelectSeq(@, LAMBDA j : j # i)]
    IN CASE call.kind = "write" /\ ok ->
              ThenCallback([w0 EXCEPT !.io.opStore = @ \cup Range(call.inserts),
                                      !.lam = AfterWrite(@, call.inserts)],
                           call, FALSE, ackThrows)
         [] call.kind = "write" /\ ~ok -> ThenCallback(w0, call, TRUE, ackThrows)
         [] call.kind = "delete" /\ ok -> ThenCallback(w0, call, FALSE, ackThrows)
         [] OTHER -> w0

\* ------------------------------------------------ DocumentCheckpointManager
\* updateCheckpointMessages(message)
UpdateCheckpointMessages(l, message) ==
    [l EXCEPT !.dcm.currentCheckpointMessage = message]

\* resetCheckpointTimer(): the idle timer is cleared and the counters restart
ResetCheckpointTimer(l) ==
    [l EXCEPT !.dcm.idleTimer = <<>>, !.dcm.rawMessagesSinceCheckpoint = 0]

\* updateCheckpointIdleTimer(idleTime, idleTimeCheckpoint, isDocumentCorrupt)
UpdateCheckpointIdleTimer(l, isDocumentCorrupt) ==
    [l EXCEPT !.dcm.idleTimer =
        << [msg |-> l.dcm.currentCheckpointMessage, corrupt |-> isDocumentCorrupt] >>]

\* prepareCheckpoint(message, checkpointReason, skipKafkaCheckpoint)
PrepareCheckpoint(w, message, reason, skipKafkaCheckpoint) ==
    LET l == w.lam
        isGlobal == IsGlobalCheckpoint(l.dcm.noActiveClients, l.globalCheckpointOnly)
        checkpoint == GenerateScribeCheckpoint(l, message.offset,
                          IF isGlobal THEN cfg.scrubUserDataInGlobalCheckpoints
                                      ELSE cfg.scrubUserDataInLocalCheckpoints)
        w1 == [w EXCEPT !.lam = ResetCheckpointTimer(UpdateCheckpointMessages(l, message))]
        w2 == RequestCheckpoint(w1, checkpoint, message, l.clearCache,
                                skipKafkaCheckpoint, reason)
    IN [w2 EXCEPT !.lam.lastOffset = message.offset]

\* idleTimeCheckpoint(initialScribeCheckpointMessage)
IdleTimeCheckpoint(w, message) ==
    LET l == w.lam
        isGlobal == IsGlobalCheckpoint(l.dcm.noActiveClients, l.globalCheckpointOnly)
        checkpoint == GenerateScribeCheckpoint(l, message.offset,
                          IF isGlobal THEN cfg.scrubUserDataInGlobalCheckpoints
                                      ELSE cfg.scrubUserDataInLocalCheckpoints)
    IN RequestCheckpoint(w, checkpoint, message, l.clearCache, FALSE, "IdleTime")

\* the timeout callback armed by updateCheckpointIdleTimer
IdleTimerCallback(w) ==
    LET timer == w.lam.dcm.idleTimer[1]
        w1 == [w EXCEPT !.lam.dcm.idleTimer = <<>>]
    IN IF timer.msg = w.lam.dcm.currentCheckpointMessage /\ ~timer.corrupt
       THEN IdleTimeCheckpoint([w1 EXCEPT !.lam = ResetCheckpointTimer(@)], timer.msg)
       ELSE w1


\* ------------------------------------------------------------- the handler
\* The handler returns [w, k]: the new state and where it is suspended (k.pc):
\* "idle" after it has returned or thrown (k.last), "awaitRead" in
\* pendingMessageReader.readMessages, "awaitClientSummary" in writeClientSummary
\* and the sends of the try block, "awaitCatchNack" in the sendSummaryNack of the
\* catch block, "awaitServiceSummary" in writeServiceSummary, "awaitServiceDSN"
\* in the sendSummaryConfirmationMessage that follows it.
Idle(last) ==
    [pc |-> "idle", msg |-> NoMsg, op |-> 0, rest |-> <<>>, prev |-> <<>>, last |-> last]

Suspended(pc, msg, op, rest, prev) ==
    [pc |-> pc, msg |-> msg, op |-> op.seq, rest |-> rest, prev |-> prev, last |-> "none"]

Threw(w) == [w |-> [w EXCEPT !.io.throws = @ + 1], k |-> Idle("threw")]

\* markDocumentAsCorrupt(message)
MarkDocumentAsCorrupt(w, message) ==
    PrepareCheckpoint([w EXCEPT !.lam.isDocumentCorrupt = TRUE],
                      message, "MarkAsCorrupt", TRUE)

RECURSIVE ProcessFromPending(_, _, _, _)
\* processFromPending(target, queuedMessage): [w, threw]
ProcessFromPending(w, lg, target, queuedMessage) ==
    LET pm == w.lam.pendingMessages IN
    IF pm # <<>> /\ Head(pm) <= target
    THEN LET message == lg[Head(pm)]
             w1 == [w EXCEPT !.lam.pendingMessages = Tail(pm)]
         IN IF DrainThrows(message)
            THEN [w |-> MarkDocumentAsCorrupt(w1, queuedMessage), threw |-> TRUE]
            ELSE ProcessFromPending(
                     [w1 EXCEPT !.lam.protocolHandler = ProcessMessage(@, message),
                                !.io.applied = Append(@,
                                    [seq |-> message.seq,
                                     at |-> w.lam.protocolHandler.sequenceNumber])],
                     lg, target, queuedMessage)
    ELSE [w |-> w, threw |-> FALSE]

\* a faulty revert that restores the buffer and keeps the advanced protocol handler
RevertKeepsHandler(l, prev) ==
    [l EXCEPT !.pendingMessages = prev.pendingOps]

\* a faulty revert that restores the protocol handler and keeps the drained buffer
RevertKeepsPending(l, prev) ==
    [l EXCEPT !.protocolHandler = InitializeProtocol(prev.protocolState)]

\* revertProtocolState(protocolState, pendingOps)
RevertProtocolState(l, prev) ==
    [l EXCEPT !.protocolHandler = InitializeProtocol(prev.protocolState),
              !.pendingMessages = prev.pendingOps]

\* a faulty update that takes the number after the protocol handler's, which is
\* the Summarize op's own number when it refers to the op before it
UpdateProtocolHeadPastHandler(l, protocolHead) ==
    [l EXCEPT !.protocolHead = protocolHead + 1]

\* updateProtocolHead(protocolHead)
UpdateProtocolHead(l, protocolHead) == [l EXCEPT !.protocolHead = protocolHead]

\* a faulty update that keeps the first summary sequence number it was given
KeepFirstSummarySequenceNumber(l, summarySequenceNumber) ==
    IF l.lastSummarySequenceNumber = Undef
    THEN [l EXCEPT !.lastSummarySequenceNumber = summarySequenceNumber]
    ELSE l

\* updateLastSummarySequenceNumber(summarySequenceNumber)
UpdateLastSummarySequenceNumber(l, summarySequenceNumber) ==
    [l EXCEPT !.lastSummarySequenceNumber = summarySequenceNumber]

\* a faulty update that cuts the list from the back and so keeps the oldest handles
KeepOldestParentSummaries(l, summaryHandle) ==
    LET list == IF l.validParentSummaries = <<>> THEN <<>> ELSE l.validParentSummaries[1]
        pushed == Append(list, summaryHandle)
    IN [l EXCEPT !.validParentSummaries =
          << IF Len(pushed) > MaxTracked THEN SubSeq(pushed, 1, MaxTracked) ELSE pushed >>]

\* a faulty update that removes one handle whenever the list is over the limit
ShiftOneParentSummary(l, summaryHandle) ==
    LET list == IF l.validParentSummaries = <<>> THEN <<>> ELSE l.validParentSummaries[1]
        pushed == Append(list, summaryHandle)
    IN [l EXCEPT !.validParentSummaries =
          << IF Len(pushed) > MaxTracked THEN Tail(pushed) ELSE pushed >>]

\* updateValidParentSummaries(summaryHandle)
UpdateValidParentSummaries(l, summaryHandle) ==
    LET list == IF l.validParentSummaries = <<>> THEN <<>> ELSE l.validParentSummaries[1]
        pushed == Append(list, summaryHandle)
        countOverLimit == Len(pushed) - MaxTracked
    IN [l EXCEPT !.validParentSummaries =
          << IF countOverLimit >= 1
             THEN SubSeq(pushed, countOverLimit + 1, Len(pushed))
             ELSE pushed >>]

\* a faulty getCheckpointReason that looks at the elapsed time first
GetCheckpointReasonTimeFirst(l, timeUp) ==
    IF ~cfg.heuristicsEnable THEN "EveryMessage"
    ELSE IF timeUp THEN "MaxTime"
    ELSE IF l.dcm.rawMessagesSinceCheckpoint >= MaxMessages THEN "MaxMessages"
    ELSE ""

\* getCheckpointReason(): "" stands for undefined
GetCheckpointReason(l, timeUp) ==
    IF ~cfg.heuristicsEnable THEN "EveryMessage"
    ELSE IF l.dcm.rawMessagesSinceCheckpoint >= MaxMessages THEN "MaxMessages"
    ELSE IF timeUp THEN "MaxTime"
    ELSE ""

\* the end of handler, after the loop over the boxcar
EndBatch(w, message, timeUp) ==
    LET w1 == [w EXCEPT !.lam.dcm.currentCheckpointMessage = message,
                        !.lam.dcm.rawMessagesSinceCheckpoint = @ + 1]
        done ==
          IF w1.lam.dcm.noActiveClients
          THEN LET w2 == IF cfg.localCheckpointEnabled
                         THEN [w1 EXCEPT !.lam.globalCheckpointOnly = TRUE] ELSE w1
                   w3 == PrepareCheckpoint(w2, message, "NoClients", FALSE)
               IN [w3 EXCEPT !.lam.dcm.noActiveClients = FALSE]
          ELSE LET checkpointReason == GetCheckpointReason(w1.lam, timeUp) IN
               IF checkpointReason = ""
               THEN [w1 EXCEPT !.lam = UpdateCheckpointIdleTimer(@, w1.lam.isDocumentCorrupt)]
               ELSE PrepareCheckpoint(w1, message, checkpointReason, FALSE)
    IN [w |-> done, k |-> Idle("ok")]

\* the sequence number the next op is expected to follow
LastKnown(l) ==
    IF l.pendingMessages # <<>> THEN Last(l.pendingMessages)
    ELSE l.protocolHandler.sequenceNumber

\* a faulty skip check that compares with this.sequenceNumber only
SkipsBySequenceNumber(l, op) == op.seq <= l.sequenceNumber

\* whether the loop skips the op (the two `continue` of the loop)
Skips(l, op) == op.seq <= l.sequenceNumber \/ op.seq <= LastKnown(l)

Send(w, m) == [w EXCEPT !.io.sent = Append(@, m)]

SummaryAckMsg(op) == [type |-> "summaryAck", seq |-> op.seq, dsn |-> Undef,
                      isClientSummary |-> TRUE, clearCache |-> FALSE]
SummaryNackMsg(op) == [type |-> "summaryNack", seq |-> op.seq, dsn |-> Undef,
                       isClientSummary |-> TRUE, clearCache |-> FALSE]
UpdateDSNMsg(op, isClientSummary, clearCache) ==
    [type |-> "updateDSN", seq |-> op.seq, dsn |-> op.seq,
     isClientSummary |-> isClientSummary, clearCache |-> clearCache]

\* ----------------------------------------------------- SummaryAck content
\* the ISummaryAck an ack op carries; a summary handle is named by the sequence
\* number of the Summarize op whose summary it is
AckPayload(op) ==
    [handle |-> op.ssn, summaryProposal |-> [summarySequenceNumber |-> op.ssn]]

\* what reading the fields of a null contents gives
NullContent ==
    [handle |-> Undef, summaryProposal |-> [summarySequenceNumber |-> Undef]]

\* JSON.stringify and JSON.parse of a content
Stringify(content) == [json |-> content]

JsonParse(data) == data.json

\* operation.data: the serialized content, <<>> when the op has no data
OpData(op) == IF op.flag THEN << Stringify(AckPayload(op)) >> ELSE <<>>

\* operation.contents: the content itself when the op has no data
OpContents(op) == IF op.flag THEN NullContent ELSE AckPayload(op)

\* a faulty read that takes the content from contents whether or not data is there
SummaryAckContentIgnoresData(op) == OpContents(op)

\* operation.data ? JSON.parse(operation.data) : operation.contents
SummaryAckContent(op) ==
    IF OpData(op) # <<>> THEN JsonParse(OpData(op)[1]) ELSE OpContents(op)

RECURSIVE RunOps(_, _, _, _, _)
RECURSIVE Dispatch(_, _, _, _, _, _)

\* a faulty acceptance that leaves minSequenceNumber as it was
AcceptForgetsMsn(w, lg, message, op, rest, timeUp) ==
    LET l == w.lam
        msnChanged == l.minSequenceNumber # op.msn
        w1 == [w EXCEPT !.lam.pendingMessages = Append(@, op.seq),
                        !.lam.pendingCheckpointMessages =
                            IF cfg.enablePendingCheckpointMessages
                            THEN Append(@, op.seq) ELSE @,
                        !.lam.sequenceNumber = op.seq,
                        !.io.accepted = Append(@, op.seq)]
        d == IF msnChanged THEN ProcessFromPending(w1, lg, op.msn, message)
             ELSE [w |-> w1, threw |-> FALSE]
    IN IF d.threw THEN Threw(d.w)
       ELSE Dispatch([d.w EXCEPT !.lam.clearCache = FALSE,
                                 !.io.dispatched = Append(@,
                                     [seq |-> op.seq,
                                      before |-> l.protocolHandler.sequenceNumber,
                                      at |-> d.w.lam.protocolHandler.sequenceNumber,
                                      head |-> l.protocolHead,
                                      lastSummary |-> l.lastSummarySequenceNumber])],
                     lg, message, op, rest, timeUp)

\* an op that passed the skip and gap checks: lines 216-232, then the dispatch
Accept(w, lg, message, op, rest, timeUp) ==
    LET l == w.lam
        msnChanged == l.minSequenceNumber # op.msn
        w1 == [w EXCEPT !.lam.pendingMessages = Append(@, op.seq),
                        !.lam.pendingCheckpointMessages =
                            IF cfg.enablePendingCheckpointMessages
                            THEN Append(@, op.seq) ELSE @,
                        !.lam.sequenceNumber = op.seq,
                        !.lam.minSequenceNumber = op.msn,
                        !.io.accepted = Append(@, op.seq)]
        d == IF msnChanged THEN ProcessFromPending(w1, lg, op.msn, message)
             ELSE [w |-> w1, threw |-> FALSE]
    IN IF d.threw THEN Threw(d.w)
       ELSE Dispatch([d.w EXCEPT !.lam.clearCache = FALSE,
                                 !.io.dispatched = Append(@,
                                     [seq |-> op.seq,
                                      before |-> l.protocolHandler.sequenceNumber,
                                      at |-> d.w.lam.protocolHandler.sequenceNumber,
                                      head |-> l.protocolHead,
                                      lastSummary |-> l.lastSummarySequenceNumber])],
                     lg, message, op, rest, timeUp)

\* the call of writeClientSummary or writeServiceSummary: both are handed
\* generateScribeCheckpoint(this.lastOffset, scrubUserDataInSummaries)
SummaryWriterCall(w) ==
    [w EXCEPT !.io.writerCalls = @ + 1,
              !.io.scribes = Append(@, GenerateScribeCheckpoint(w.lam, w.lam.lastOffset,
                                           cfg.scrubUserDataInSummaries))]

\* a faulty dispatch that writes a service summary for an ephemeral container
DispatchSummarizesEphemeral(w, lg, message, op, rest, timeUp) ==
    LET l == w.lam IN
    CASE op.type = "summarize" /\ ~op.flag ->
           IF ~cfg.isExternal \/ op.ref >= l.protocolHandler.sequenceNumber
           THEN LET prevState == [protocolState |-> GetProtocolState(l.protocolHandler, FALSE),
                                  pendingOps |-> l.pendingMessages]
                    d == ProcessFromPending(w, lg, op.ref, message)
                IN IF d.threw THEN Threw(d.w)
                   ELSE IF d.w.lam.protocolHead < d.w.lam.protocolHandler.sequenceNumber
                   THEN [w |-> SummaryWriterCall(d.w),
                         k |-> Suspended("awaitClientSummary", message, op, rest, <<prevState>>)]
                   ELSE RunOps(d.w, lg, message, rest, timeUp)
           ELSE RunOps(w, lg, message, rest, timeUp)
      [] op.type = "noClient" ->
           IF op.ref # op.seq \/ op.msn # op.seq THEN Threw(w)
           ELSE LET w1 == [w EXCEPT !.lam.dcm.noActiveClients = TRUE,
                                    !.lam.globalCheckpointOnly = TRUE]
                    enableServiceSummaryForTenant ==
                        cfg.disableTransientTenantFiltering \/ ~cfg.transientTenant
                IN IF cfg.generateServiceSummary
                      /\ enableServiceSummaryForTenant
                   THEN [w |-> SummaryWriterCall(w1),
                         k |-> Suspended("awaitServiceSummary", message, op, rest, <<>>)]
                   ELSE RunOps(w1, lg, message, rest, timeUp)
      [] op.type = "summaryAck" ->
           LET content == SummaryAckContent(op)
               w1 == [w EXCEPT !.lam.lastClientSummaryHead = content.handle,
                               !.lam.validParentSummaries = <<>>]
               w2 == IF cfg.isExternal
                     THEN [w1 EXCEPT !.lam = UpdateLastSummarySequenceNumber(
                                                 UpdateProtocolHead(@,
                                                     content.summaryProposal.summarySequenceNumber),
                                                 content.summaryProposal.summarySequenceNumber)]
                     ELSE w1
           IN RunOps(w2, lg, message, rest, timeUp)
      [] op.type = "join" /\ cfg.localCheckpointEnabled ->
           RunOps([w EXCEPT !.lam.globalCheckpointOnly = FALSE], lg, message, rest, timeUp)
      [] OTHER -> RunOps(w, lg, message, rest, timeUp)

\* a faulty dispatch that writes the summary of a client that is behind the
\* handler
DispatchWritesBehind(w, lg, message, op, rest, timeUp) ==
    LET l == w.lam IN
    CASE op.type = "summarize" /\ ~op.flag ->
           IF TRUE
           THEN LET prevState == [protocolState |-> GetProtocolState(l.protocolHandler, FALSE),
                                  pendingOps |-> l.pendingMessages]
                    d == ProcessFromPending(w, lg, op.ref, message)
                IN IF d.threw THEN Threw(d.w)
                   ELSE IF d.w.lam.protocolHead < d.w.lam.protocolHandler.sequenceNumber
                   THEN [w |-> SummaryWriterCall(d.w),
                         k |-> Suspended("awaitClientSummary", message, op, rest, <<prevState>>)]
                   ELSE RunOps(d.w, lg, message, rest, timeUp)
           ELSE RunOps(w, lg, message, rest, timeUp)
      [] op.type = "noClient" ->
           IF op.ref # op.seq \/ op.msn # op.seq THEN Threw(w)
           ELSE LET w1 == [w EXCEPT !.lam.dcm.noActiveClients = TRUE,
                                    !.lam.globalCheckpointOnly = TRUE]
                    enableServiceSummaryForTenant ==
                        cfg.disableTransientTenantFiltering \/ ~cfg.transientTenant
                IN IF cfg.generateServiceSummary /\ ~cfg.isEphemeralContainer
                      /\ enableServiceSummaryForTenant
                   THEN [w |-> SummaryWriterCall(w1),
                         k |-> Suspended("awaitServiceSummary", message, op, rest, <<>>)]
                   ELSE RunOps(w1, lg, message, rest, timeUp)
      [] op.type = "summaryAck" ->
           LET content == SummaryAckContent(op)
               w1 == [w EXCEPT !.lam.lastClientSummaryHead = content.handle,
                               !.lam.validParentSummaries = <<>>]
               w2 == IF cfg.isExternal
                     THEN [w1 EXCEPT !.lam = UpdateLastSummarySequenceNumber(
                                                 UpdateProtocolHead(@,
                                                     content.summaryProposal.summarySequenceNumber),
                                                 content.summaryProposal.summarySequenceNumber)]
                     ELSE w1
           IN RunOps(w2, lg, message, rest, timeUp)
      [] op.type = "join" /\ cfg.localCheckpointEnabled ->
           RunOps([w EXCEPT !.lam.globalCheckpointOnly = FALSE], lg, message, rest, timeUp)
      [] OTHER -> RunOps(w, lg, message, rest, timeUp)

\* the dispatch on the op type, up to the first await
Dispatch(w, lg, message, op, rest, timeUp) ==
    LET l == w.lam IN
    CASE op.type = "summarize" /\ ~op.flag ->
           IF ~cfg.isExternal \/ op.ref >= l.protocolHandler.sequenceNumber
           THEN LET prevState == [protocolState |-> GetProtocolState(l.protocolHandler, FALSE),
                                  pendingOps |-> l.pendingMessages]
                    d == ProcessFromPending(w, lg, op.ref, message)
                IN IF d.threw THEN Threw(d.w)
                   ELSE IF d.w.lam.protocolHead < d.w.lam.protocolHandler.sequenceNumber
                   THEN [w |-> SummaryWriterCall(d.w),
                         k |-> Suspended("awaitClientSummary", message, op, rest, <<prevState>>)]
                   ELSE RunOps(d.w, lg, message, rest, timeUp)
           ELSE RunOps(w, lg, message, rest, timeUp)
      [] op.type = "noClient" ->
           IF op.ref # op.seq \/ op.msn # op.seq THEN Threw(w)
           ELSE LET w1 == [w EXCEPT !.lam.dcm.noActiveClients = TRUE,
                                    !.lam.globalCheckpointOnly = TRUE]
                    enableServiceSummaryForTenant ==
                        cfg.disableTransientTenantFiltering \/ ~cfg.transientTenant
                IN IF cfg.generateServiceSummary /\ ~cfg.isEphemeralContainer
                      /\ enableServiceSummaryForTenant
                   THEN [w |-> SummaryWriterCall(w1),
                         k |-> Suspended("awaitServiceSummary", message, op, rest, <<>>)]
                   ELSE RunOps(w1, lg, message, rest, timeUp)
      [] op.type = "summaryAck" ->
           LET content == SummaryAckContent(op)
               w1 == [w EXCEPT !.lam.lastClientSummaryHead = content.handle,
                               !.lam.validParentSummaries = <<>>]
               w2 == IF cfg.isExternal
                     THEN [w1 EXCEPT !.lam = UpdateLastSummarySequenceNumber(
                                                 UpdateProtocolHead(@,
                                                     content.summaryProposal.summarySequenceNumber),
                                                 content.summaryProposal.summarySequenceNumber)]
                     ELSE w1
           IN RunOps(w2, lg, message, rest, timeUp)
      [] op.type = "join" /\ cfg.localCheckpointEnabled ->
           RunOps([w EXCEPT !.lam.globalCheckpointOnly = FALSE], lg, message, rest, timeUp)
      [] OTHER -> RunOps(w, lg, message, rest, timeUp)

\* a faulty loop that takes an op after a gap as if it followed the last known op
RunOpsAcceptsGap(w, lg, message, ops, timeUp) ==
    IF ops = <<>> THEN EndBatch(w, message, timeUp)
    ELSE LET op == lg[Head(ops)]
             rest == Tail(ops)
         IN IF Skips(w.lam, op) THEN RunOps(w, lg, message, rest, timeUp)
            ELSE IF op.seq # LastKnown(w.lam) + 1 /\ cfg.hasReader
            THEN [w |-> [w EXCEPT !.io.reads = Append(@,
                             [from |-> LastKnown(w.lam) + 1, to |-> op.seq - 1])],
                  k |-> Suspended("awaitRead", message, op, rest, <<>>)]
            ELSE Accept(w, lg, message, op, rest, timeUp)

\* the loop over boxcar.contents from the op at the head of ops
RunOps(w, lg, message, ops, timeUp) ==
    IF ops = <<>> THEN EndBatch(w, message, timeUp)
    ELSE LET op == lg[Head(ops)]
             rest == Tail(ops)
         IN IF Skips(w.lam, op) THEN RunOps(w, lg, message, rest, timeUp)
            ELSE IF op.seq # LastKnown(w.lam) + 1
            THEN IF ~cfg.hasReader THEN Threw(w)
                 ELSE [w |-> [w EXCEPT !.io.reads = Append(@,
                                  [from |-> LastKnown(w.lam) + 1, to |-> op.seq - 1])],
                       k |-> Suspended("awaitRead", message, op, rest, <<>>)]
            ELSE Accept(w, lg, message, op, rest, timeUp)


\* a faulty gap fill that loses the first op the reader returned
AfterReadLosesFirst(w, lg, message, op, rest, timeUp) ==
    LET asked == Last(w.io.reads)
    IN Accept([w EXCEPT !.lam.pendingMessages = @ \o FromTo(asked.from + 1, asked.to)],
              lg, message, op, rest, timeUp)

\* readMessages(from, to) has returned the ops of the range it was asked for:
\* they are pushed, then the op itself is accepted
AfterRead(w, lg, message, op, rest, timeUp) ==
    LET asked == Last(w.io.reads)
    IN Accept([w EXCEPT !.lam.pendingMessages = @ \o FromTo(asked.from, asked.to)],
              lg, message, op, rest, timeUp)

\* what writeClientSummary and the producer can answer for a Summarize op:
\* an ack, a nack, an exception of the writer, or a producer send that fails
\* (of the SummaryAck, of the UpdateDSN that follows it, of the SummaryNack)
ClientResults ==
    IF cfg.isExternal THEN {"ack", "nack", "throw"}
    ELSE {"ack", "nack", "throw", "ackSendFail", "dsnSendFail", "nackSendFail"}

\* what writeServiceSummary and the producer can answer for a NoClient op
ServiceResults == {"handle", "undef", "throw", "dsnSendFail"}

\* a faulty catch block that leaves the protocol state as the drain to the
\* referenceSequenceNumber made it
CatchClientSummaryKeepsState(w, message, op, rest, prevState) ==
    IF cfg.ignoreStorageException
    THEN [w |-> w, k |-> Suspended("awaitCatchNack", message, op, rest, <<>>)]
    ELSE Threw(w)

\* the catch block of the client summary: revert, then nack or rethrow
CatchClientSummary(w, message, op, rest, prevState) ==
    LET w1 == [w EXCEPT !.lam = RevertProtocolState(@, prevState)] IN
    IF cfg.ignoreStorageException
    THEN [w |-> w1, k |-> Suspended("awaitCatchNack", message, op, rest, <<>>)]
    ELSE Threw(w1)

\* the try block after writeClientSummary has settled with op.res
AfterClientSummary(w, lg, message, op, rest, prevState, timeUp) ==
    IF op.res = "throw" THEN CatchClientSummary(w, message, op, rest, prevState)
    ELSE IF cfg.isExternal THEN RunOps(w, lg, message, rest, timeUp)
    ELSE IF op.res \in {"ack", "ackSendFail", "dsnSendFail"}
    THEN IF op.res = "ackSendFail"
         THEN CatchClientSummary(w, message, op, rest, prevState)
         ELSE LET w1 == Send(w, SummaryAckMsg(op)) IN
              IF op.res = "dsnSendFail"
              THEN CatchClientSummary(w1, message, op, rest, prevState)
              ELSE LET w2 == Send(w1, UpdateDSNMsg(op, TRUE, FALSE))
                       head == w2.lam.protocolHandler.sequenceNumber
                   IN RunOps([w2 EXCEPT !.lam = UpdateLastSummarySequenceNumber(
                                                    UpdateProtocolHead(@, head), head)],
                             lg, message, rest, timeUp)
    ELSE IF op.res = "nackSendFail"
         THEN CatchClientSummary(w, message, op, rest, prevState)
         ELSE RunOps([Send(w, SummaryNackMsg(op))
                        EXCEPT !.lam = RevertProtocolState(@, prevState)],
                     lg, message, rest, timeUp)

\* the sendSummaryNack of the catch block has settled; the producer that refused
\* the nack of the try block refuses this one too
AfterCatchNack(w, lg, message, op, rest, timeUp) ==
    IF op.res = "nackSendFail" THEN Threw(w)
    ELSE RunOps(Send(w, SummaryNackMsg(op)), lg, message, rest, timeUp)

\* a faulty catch block that marks the document corrupt before it looks at
\* ignoreStorageException
CatchServiceSummaryMarksFirst(w, lg, message, rest, timeUp) ==
    LET w1 == [w EXCEPT !.lam.isDocumentCorrupt = TRUE] IN
    IF cfg.ignoreStorageException THEN RunOps(w1, lg, message, rest, timeUp)
    ELSE Threw(w1)

\* the catch block of the service summary
CatchServiceSummary(w, lg, message, rest, timeUp) ==
    IF cfg.ignoreStorageException THEN RunOps(w, lg, message, rest, timeUp)
    ELSE Threw([w EXCEPT !.lam.isDocumentCorrupt = TRUE])

\* sendSummaryConfirmationMessage of the service summary has settled
AfterServiceDSN(w, lg, message, op, rest, timeUp) ==
    IF op.res = "dsnSendFail" THEN CatchServiceSummary(w, lg, message, rest, timeUp)
    ELSE LET w1 == Send(w, UpdateDSNMsg(op, FALSE, cfg.clearCacheAfterServiceSummary))
             l2 == UpdateValidParentSummaries(
                       UpdateLastSummarySequenceNumber(w1.lam, op.seq), op.seq)
         IN RunOps([w1 EXCEPT !.lam = l2], lg, message, rest, timeUp)

\* writeServiceSummary has settled with op.res
AfterServiceSummary(w, lg, message, op, rest, timeUp) ==
    CASE op.res = "throw" -> CatchServiceSummary(w, lg, message, rest, timeUp)
      [] op.res = "undef" -> RunOps(w, lg, message, rest, timeUp)
      [] OTHER ->
           IF cfg.clearCacheAfterServiceSummary
           THEN [w |-> [w EXCEPT !.lam.clearCache = TRUE],
                 k |-> Suspended("awaitServiceDSN", message, op, rest, <<>>)]
           ELSE AfterServiceDSN(w, lg, message, op, rest, timeUp)

\* a faulty entry of handler that takes a batch at lastOffset for a new one
HandlerStartBelowLastOffset(w, lg, message, ops, timeUp) ==
    IF message.offset < w.lam.lastOffset
    THEN LET w1 == [w EXCEPT !.lam = UpdateCheckpointMessages(@, message)] IN
         [w |-> IF cfg.kafkaCheckpointOnReprocessingOp
                THEN [w1 EXCEPT !.io.acked = Append(@, [msg |-> message, path |-> "duplicate"])]
                ELSE w1,
          k |-> Idle("dup")]
    ELSE RunOps([w EXCEPT !.lam.lastOffset = message.offset], lg, message, ops, timeUp)

\* handler(message) from its first line to its first await
HandlerStart(w, lg, message, ops, timeUp) ==
    IF message.offset <= w.lam.lastOffset
    THEN LET w1 == [w EXCEPT !.lam = UpdateCheckpointMessages(@, message)] IN
         [w |-> IF cfg.kafkaCheckpointOnReprocessingOp
                THEN [w1 EXCEPT !.io.acked = Append(@, [msg |-> message, path |-> "duplicate"])]
                ELSE w1,
          k |-> Idle("dup")]
    ELSE RunOps([w EXCEPT !.lam.lastOffset = message.offset], lg, message, ops, timeUp)

\* ------------------------------------------------------------ the machine
W == [lam |-> lam, io |-> io]

\* the batches upstream can deliver: ops already sequenced (re-delivery) and up to
\* MaxBatchLen new ones, of which the last is in the boxcar
LastMsn(lg) == IF lg = <<>> THEN 0 ELSE Last(lg).msn

Extensions(lg, alphabet) ==
    LET n == Len(lg)
        one == IF n + 1 <= MaxSeq
               THEN { <<o>> : o \in Sequenceable(n + 1, LastMsn(lg), alphabet) } ELSE {}
        two == IF n + 2 <= MaxSeq /\ MaxBatchLen >= 2
               THEN UNION { { e \o <<o>> : o \in Sequenceable(n + 2, e[1].msn, alphabet) } : e \in one }
               ELSE {}
    IN {<<>>} \cup one \cup two

\* without redelivery the boxcar holds exactly the new ops; with it the boxcar
\* may also repeat the op before them, leave out the first of two new ops (a
\* gap), or hold nothing but ops of earlier boxcars
Boxcars(lg, ext, redelivery) ==
    LET n == Len(lg) + Len(ext)
        exact == IF ext = <<>> THEN {} ELSE { FromTo(Len(lg) + 1, n) }
        again == { FromTo(Max(1, n - MaxBatchLen + 1), n) } \ { <<>> }
        gap == IF Len(ext) >= 2 THEN { <<n>> } ELSE {}
    IN IF redelivery THEN exact \cup again \cup gap ELSE exact

NextOffset == IF fed = <<>> THEN 1 ELSE Last(fed).msg.offset + 1

Install(r) ==
    /\ lam' = r.w.lam
    /\ io' = r.w.io
    /\ cur' = r.k

\* upstream delivers a batch with a new offset
Deliver(alphabet, redelivery) ==
    /\ cur.pc = "idle" /\ ~lam.closed
    /\ Len(fed) < MaxBatches
    /\ \E ext \in Extensions(log, alphabet) : \E ops \in Boxcars(log, ext, redelivery) : \E timeUp \in BOOLEAN :
         LET lg == log \o ext
             message == Msg(io.deliveries + 1, NextOffset)
         IN /\ log' = lg
            /\ fed' = Append(fed, [msg |-> message, ops |-> ops,
                                    known |-> Len(io.accepted)])
            /\ Install(HandlerStart([W EXCEPT !.io.deliveries = @ + 1,
                                              !.io.handed = message],
                                    lg, message, ops, timeUp))
    /\ UNCHANGED cfg

\* upstream delivers again a batch that was delivered before
Redeliver ==
    /\ cur.pc = "idle" /\ ~lam.closed
    /\ io.deliveries - Len(fed) < MaxRedeliveries
    /\ \E i \in 1..Len(fed) :
         LET message == Msg(io.deliveries + 1, fed[i].msg.offset)
         IN Install(HandlerStart([W EXCEPT !.io.deliveries = @ + 1,
                                           !.io.handed = message],
                                 log, message, fed[i].ops, FALSE))
    /\ UNCHANGED <<cfg, log, fed>>

CurOp == log[cur.op]

\* pendingMessageReader.readMessages resolves
ReadResume ==
    /\ cur.pc = "awaitRead"
    /\ \E timeUp \in BOOLEAN :
         Install(AfterRead(W, log, cur.msg, CurOp, cur.rest, timeUp))
    /\ UNCHANGED <<cfg, log, fed>>

\* writeClientSummary (and the sends that follow it in the try block) settle
ClientSummaryResume ==
    /\ cur.pc = "awaitClientSummary"
    /\ \E res \in ClientResults : \E timeUp \in BOOLEAN :
         LET lg == [log EXCEPT ![cur.op].res = res]
         IN /\ log' = lg
            /\ Install(AfterClientSummary(W, lg, cur.msg, lg[cur.op], cur.rest,
                                          cur.prev[1], timeUp))
    /\ UNCHANGED <<cfg, fed>>

\* the sendSummaryNack of the catch block settles
CatchNackResume ==
    /\ cur.pc = "awaitCatchNack"
    /\ \E timeUp \in BOOLEAN :
         Install(AfterCatchNack(W, log, cur.msg, CurOp, cur.rest, timeUp))
    /\ UNCHANGED <<cfg, log, fed>>

\* writeServiceSummary settles
ServiceSummaryResume ==
    /\ cur.pc = "awaitServiceSummary"
    /\ \E res \in ServiceResults : \E timeUp \in BOOLEAN :
         LET lg == [log EXCEPT ![cur.op].res = res]
         IN /\ log' = lg
            /\ Install(AfterServiceSummary(W, lg, cur.msg, lg[cur.op], cur.rest, timeUp))
    /\ UNCHANGED <<cfg, fed>>

\* the UpdateDSN send of a cache-clearing service summary settles
ServiceDSNResume ==
    /\ cur.pc = "awaitServiceDSN"
    /\ \E timeUp \in BOOLEAN :
         Install(AfterServiceDSN(W, log, cur.msg, CurOp, cur.rest, timeUp))
    /\ UNCHANGED <<cfg, log, fed>>

InstallW(w) ==
    /\ lam' = w.lam
    /\ io' = w.io

\* the promise of an outstanding call of the given kind settles
SettleCall(kind, ok, ackThrows) ==
    /\ \E i \in Range(io.inflight) :
         /\ io.calls[i].kind = kind
         /\ ackThrows => ~io.calls[i].skip
         /\ InstallW(Settle(W, i, ok, ackThrows))
    /\ UNCHANGED <<cfg, log, cur, fed>>

\* checkpointManager.write resolves
WriteResolve == SettleCall("write", TRUE, FALSE)

\* checkpointManager.write resolves and context.checkpoint throws
WriteResolveAckThrows == SettleCall("write", TRUE, TRUE)

\* checkpointManager.write rejects
WriteReject == SettleCall("write", FALSE, FALSE)

\* checkpointManager.delete resolves
DeleteResolve == SettleCall("delete", TRUE, FALSE)

\* checkpointManager.delete resolves and context.checkpoint throws
DeleteResolveAckThrows == SettleCall("delete", TRUE, TRUE)

\* checkpointManager.delete rejects
DeleteReject == SettleCall("delete", FALSE, FALSE)

\* the idle timer of the DocumentCheckpointManager fires
IdleTimerFire ==
    /\ lam.dcm.idleTimer # <<>>
    /\ InstallW(IdleTimerCallback(W))
    /\ UNCHANGED <<cfg, log, cur, fed>>

\* close(closeType)
Close ==
    /\ ~lam.closed
    /\ lam' = [lam EXCEPT !.closed = TRUE]
    /\ UNCHANGED <<cfg, log, cur, io, fed>>

InitWith(cfgs) ==
    /\ cfg \in cfgs
    /\ log = <<>>
    /\ lam = NewLambda(cfg, FreshScribe, InitializeProtocol(FreshScribe.protocolState), <<>>)
    /\ cur = Idle("none")
    /\ io = NewIo
    /\ fed = <<>>

\* ---- the checkpoint writer under every fault of its collaborators
CkptCfgs == { [BaseCfg EXCEPT !.clearCacheAfterServiceSummary = c] : c \in BOOLEAN }

DeliverCkpt == Deliver("ckpt", FALSE)

InitCkpt == InitWith(CkptCfgs)

NextCkpt ==
    \/ DeliverCkpt
    \/ Redeliver
    \/ ReadResume
    \/ ServiceSummaryResume
    \/ ServiceDSNResume
    \/ WriteResolve
    \/ WriteResolveAckThrows
    \/ WriteReject
    \/ DeleteResolve
    \/ DeleteResolveAckThrows
    \/ DeleteReject
    \/ IdleTimerFire
    \/ Close

SpecCkpt == InitCkpt /\ [][NextCkpt]_vars

\* ---- the same environment under the scheduling of the event loop: a promise
\* of the checkpoint manager that is outstanding settles, and an idle timer
\* that stays armed fires; nothing obliges upstream to deliver
SettleAny ==
    \/ WriteResolve
    \/ WriteResolveAckThrows
    \/ WriteReject
    \/ DeleteResolve
    \/ DeleteResolveAckThrows
    \/ DeleteReject

SpecLive ==
    /\ InitCkpt
    /\ [][NextCkpt]_vars
    /\ WF_vars(SettleAny)
    /\ WF_vars(IdleTimerFire)

\* the same environment with an offset store that never throws, an input stream
\* without re-deliveries and an instance that stays open
NextPersist ==
    \/ DeliverCkpt
    \/ ReadResume
    \/ ServiceSummaryResume
    \/ ServiceDSNResume
    \/ WriteResolve
    \/ WriteReject
    \/ DeleteResolve
    \/ DeleteReject
    \/ IdleTimerFire

SpecPersist == InitCkpt /\ [][NextPersist]_vars

\* ---- op processing: every op type, boxcars that repeat or leave out ops, an
\* instance that is fresh or restored from a checkpoint with a tail of stored ops
MaxRestored == 2       \* ops already stored when the instance is constructed

\* a checkpoint is requested after every batch; the summary writer is internal
\* (with storage exceptions fatal, or ignored) or external
OpsCfgs ==
    LET everyMessage == [BaseCfg EXCEPT !.heuristicsEnable = FALSE] IN
    { everyMessage,
      [everyMessage EXCEPT !.ignoreStorageException = TRUE,
                           !.kafkaCheckpointOnReprocessingOp = FALSE],
      [everyMessage EXCEPT !.isExternal = TRUE] }

\* the instance the factory builds for a document whose op store holds the plain
\* ops 1..k and whose checkpoint was taken at sequence number a <= k, before any
\* of them reached the protocol handler
InitRestored(cfgs) ==
    /\ cfg \in cfgs
    /\ \E k \in 0..MaxRestored : \E a \in 0..k :
         /\ log = [ i \in 1..k |-> Op(i, 0, i - 1, "op", FALSE, Undef) ]
         /\ lam = NewLambda(cfg, [FreshScribe EXCEPT !.sequenceNumber = a],
                            InitializeProtocol(FreshScribe.protocolState), FromTo(1, k))
    /\ cur = Idle("none")
    /\ io = NewIo
    /\ fed = <<>>

DeliverOps == Deliver("proc", TRUE)

InitOps == InitRestored(OpsCfgs)

NextOps ==
    \/ DeliverOps
    \/ Redeliver
    \/ ReadResume
    \/ ClientSummaryResume
    \/ CatchNackResume
    \/ ServiceSummaryResume

SpecOps == InitOps /\ [][NextOps]_vars

\* ---- op processing by an instance whose checkpoint may say that the document
\* is corrupt
InitCorrupt ==
    /\ cfg \in OpsCfgs
    /\ \E k \in 0..MaxRestored : \E a \in 0..k : \E isCorrupt \in BOOLEAN :
         /\ log = [ i \in 1..k |-> Op(i, 0, i - 1, "op", FALSE, Undef) ]
         /\ lam = NewLambda(cfg, [FreshScribe EXCEPT !.sequenceNumber = a,
                                                     !.isCorrupt = isCorrupt],
                            InitializeProtocol(FreshScribe.protocolState), FromTo(1, k))
    /\ cur = Idle("none")
    /\ io = NewIo
    /\ fed = <<>>

SpecCorrupt == InitCorrupt /\ [][NextOps]_vars

\* ---- op processing with an external summary writer, storage exceptions fatal
\* or ignored
ExternalCfgs ==
    { [BaseCfg EXCEPT !.heuristicsEnable = FALSE, !.isExternal = TRUE,
                      !.ignoreStorageException = i] : i \in BOOLEAN }

InitExternal == InitRestored(ExternalCfgs)

SpecExternal == InitExternal /\ [][NextOps]_vars

\* ---- restart: a new instance is built from a persisted checkpoint and fed the
\* batches after its logOffset; the batches of the original run arrive before
\* the idle time elapses and every checkpoint write resolves
\* the instance the factory builds from checkpoint c and the op store: the
\* protocol handler from c.protocolState, the pending ops the stored ops above it
Reconstruct(c, store) ==
    NewLambda(cfg, c, InitializeProtocol(c.protocolState),
              SelectSeq(FromTo(1, Len(log)),
                        LAMBDA n : n \in store /\ n > c.protocolState.sequenceNumber))

RECURSIVE Finish(_, _)
\* a handler call run to its end, the summary writer and the producer answering
\* for each op what they answered before; "unknown" when they were never asked
Finish(r, lg) ==
    LET k == r.k
        asked == lg[k.op].res # "na"
    IN CASE k.pc = "idle" -> r
         [] k.pc = "awaitRead" ->
              Finish(AfterRead(r.w, lg, k.msg, lg[k.op], k.rest, FALSE), lg)
         [] k.pc = "awaitClientSummary" /\ asked ->
              Finish(AfterClientSummary(r.w, lg, k.msg, lg[k.op], k.rest, k.prev[1], FALSE), lg)
         [] k.pc = "awaitCatchNack" ->
              Finish(AfterCatchNack(r.w, lg, k.msg, lg[k.op], k.rest, FALSE), lg)
         [] k.pc = "awaitServiceSummary" /\ asked ->
              Finish(AfterServiceSummary(r.w, lg, k.msg, lg[k.op], k.rest, FALSE), lg)
         [] k.pc = "awaitServiceDSN" ->
              Finish(AfterServiceDSN(r.w, lg, k.msg, lg[k.op], k.rest, FALSE), lg)
         [] OTHER -> [w |-> r.w, k |-> Idle("unknown")]

RECURSIVE Replay(_, _, _)
\* the batches handled one after the other: [w, last], last = "ok" when every
\* call returned
Replay(w, lg, batches) ==
    IF batches = <<>> THEN [w |-> w, last |-> "ok"]
    ELSE LET r == Finish(HandlerStart(w, lg, Head(batches).msg, Head(batches).ops, FALSE), lg)
         IN IF r.k.last = "ok" THEN Replay(r.w, lg, Tail(batches))
            ELSE [w |-> r.w, last |-> r.k.last]

DeliverStream == Deliver("proc", FALSE)

InitReplay == InitWith({BaseCfg})

NextReplay ==
    \/ DeliverStream
    \/ ReadResume
    \/ ClientSummaryResume
    \/ ServiceSummaryResume
    \/ WriteResolve

SpecReplay == InitReplay /\ [][NextReplay]_vars

\* ---- service summaries and SummaryAck ops on an instance whose checkpoint
\* carries a list of parent summaries, possibly written under a larger limit
MaxLoadedParents == 3  \* handles in the validParentSummaries of the initial checkpoint

\* the handles of earlier service summaries, oldest first
LoadedParents(n) == [ i \in 1..n |-> i - n - 1 ]

InitParents ==
    /\ cfg \in { [BaseCfg EXCEPT !.heuristicsEnable = FALSE,
                                  !.clearCacheAfterServiceSummary = c] : c \in BOOLEAN }
    /\ log = <<>>
    /\ \E parents \in {<<>>} \cup { << LoadedParents(n) >> : n \in 0..MaxLoadedParents } :
         lam = NewLambda(cfg, [FreshScribe EXCEPT !.validParentSummaries = parents],
                         InitializeProtocol(FreshScribe.protocolState), <<>>)
    /\ cur = Idle("none")
    /\ io = NewIo
    /\ fed = <<>>

NextParents ==
    \/ DeliverStream
    \/ ClientSummaryResume
    \/ ServiceSummaryResume
    \/ ServiceDSNResume

SpecParents == InitParents /\ [][NextParents]_vars

\* ---- local and global checkpoints: clients join and leave the session empty,
\* local checkpoints enabled or not, no service summaries
GlobalCfgs ==
    { [BaseCfg EXCEPT !.generateServiceSummary = FALSE,
                      !.localCheckpointEnabled = e] : e \in BOOLEAN }

DeliverClients == Deliver("clients", FALSE)

InitGlobal == InitWith(GlobalCfgs)

NextGlobal ==
    \/ DeliverClients
    \/ WriteResolve
    \/ WriteReject
    \/ IdleTimerFire

SpecGlobal == InitGlobal /\ [][NextGlobal]_vars

\* ---- op processing without a Pending Message Reader
NoReaderCfgs == { [BaseCfg EXCEPT !.heuristicsEnable = FALSE, !.hasReader = FALSE] }

InitGap == InitRestored(NoReaderCfgs)

NextGap ==
    \/ DeliverOps
    \/ Redeliver
    \/ ClientSummaryResume
    \/ ServiceSummaryResume

SpecGap == InitGap /\ [][NextGap]_vars

\* ---- gap recovery: deli has sequenced the plain ops 1..k, the instance was
\* built from a checkpoint taken at sequence number j <= k with the ops 1..j
\* pending, and the stream resumes after op k
HealCfgs == { [BaseCfg EXCEPT !.heuristicsEnable = FALSE] }

InitHeal ==
    /\ cfg \in HealCfgs
    /\ \E k \in 0..MaxRestored : \E j \in 0..k :
         /\ log = [ i \in 1..k |-> Op(i, 0, i - 1, "op", FALSE, Undef) ]
         /\ lam = NewLambda(cfg, [FreshScribe EXCEPT !.sequenceNumber = j],
                            InitializeProtocol(FreshScribe.protocolState), FromTo(1, j))
    /\ cur = Idle("none")
    /\ io = NewIo
    /\ fed = <<>>

NextHeal ==
    \/ DeliverOps
    \/ Redeliver
    \/ ReadResume
    \/ ClientSummaryResume
    \/ ServiceSummaryResume

SpecHeal == InitHeal /\ [][NextHeal]_vars

\* ---- the drain into the protocol handler: plain ops whose contents may fail to
\* parse and Summarize ops, after a gap or not, checkpoint writes that resolve
DeliverDrain == Deliver("drain", TRUE)

NextDrain ==
    \/ DeliverDrain
    \/ ReadResume
    \/ ClientSummaryResume
    \/ WriteResolve

SpecDrain == InitHeal /\ [][NextDrain]_vars

\* ---- Summarize ops that deli has acked, that are behind the handler or that
\* follow the summary already taken, with an internal or an external writer
DeliverSummaries == Deliver("summaries", TRUE)

NextSummaries ==
    \/ DeliverSummaries
    \/ ReadResume
    \/ ClientSummaryResume
    \/ CatchNackResume

SpecSummaries == InitOps /\ [][NextSummaries]_vars

\* ---- the checkpoint decision at the end of a batch: heuristics enabled or not,
\* sessions that end with a NoClient op and a service summary whose failures are
\* ignored
DecideCfgs ==
    { [BaseCfg EXCEPT !.heuristicsEnable = h, !.ignoreStorageException = TRUE] : h \in BOOLEAN }

InitDecide == InitWith(DecideCfgs)

NextDecide ==
    \/ DeliverClients
    \/ ServiceSummaryResume
    \/ WriteResolve
    \/ IdleTimerFire

SpecDecide == InitDecide /\ [][NextDecide]_vars

\* ---- service summaries that fail, with storage exceptions ignored or fatal
ServiceCfgs ==
    { [BaseCfg EXCEPT !.heuristicsEnable = h, !.ignoreStorageException = i] :
        h \in BOOLEAN, i \in BOOLEAN }

InitService == InitWith(ServiceCfgs)

SpecService == InitService /\ [][NextDecide]_vars

\* ---- NoClient ops under every setting that decides about the service summary
TenantCfgs ==
    { [BaseCfg EXCEPT !.generateServiceSummary = g, !.isEphemeralContainer = e,
                      !.transientTenant = t, !.disableTransientTenantFiltering = d] :
        g \in BOOLEAN, e \in BOOLEAN, t \in BOOLEAN, d \in BOOLEAN }

InitTenant == InitWith(TenantCfgs)

SpecTenant == InitTenant /\ [][NextDecide]_vars

\* ---- SummaryAck ops whose content travels in data or in contents, with an
\* internal or an external summary writer
AckCfgs ==
    { [BaseCfg EXCEPT !.heuristicsEnable = FALSE, !.isExternal = x] : x \in BOOLEAN }

DeliverAcks == Deliver("acks", FALSE)

InitAcks == InitWith(AckCfgs)

NextAcks ==
    \/ DeliverAcks
    \/ ClientSummaryResume
    \/ ServiceSummaryResume

SpecAcks == InitAcks /\ [][NextAcks]_vars

\* ------------------------------------------------------------------ claims
CheckpointAcks == { a \in Range(io.acked) : a.path = "checkpoint" }

Calls == Range(io.calls)

Queued == lam.pendingCheckpointScribe # <<>> /\ lam.pendingCheckpointOffset # <<>>

\* the call i settles in this step
Settles(i) == io.calls[i].result = "pending" /\ io'.calls[i].result # "pending"

\* C1: a pair persisted through checkpointManager.write is acknowledged upstream
\* only once that write has resolved; when the write rejects nothing is
\* acknowledged, the handler is not disturbed and pendingP is released (or taken
\* again by the queued successor, which is then the outstanding call).
C1_AckAfterWrite ==
    /\ [](\A c \in Calls : c.kind = "write" /\ c.result # "ok" =>
            \A a \in CheckpointAcks : a.msg # c.msg)
    /\ [][\A i \in 1..Len(io.calls) :
            (io.calls[i].kind = "write" /\ Settles(i) /\ io'.calls[i].result = "failed") =>
               /\ io'.acked = io.acked
               /\ cur' = cur
               /\ lam'.pendingP => (io'.inflight # <<>> /\ i \notin Range(io'.inflight))
               /\ ~lam'.pendingP => io'.inflight = <<>>]_vars

C1_Witness ==
    /\ \E c \in Calls : c.kind = "write" /\ c.result = "failed"
    /\ \E c \in Calls : c.kind = "write" /\ c.result = "ok"
                        /\ \E a \in CheckpointAcks : a.msg = c.msg

\* C2 as stated: every offset acknowledged on the checkpoint path has a persisted
\* scribe checkpoint (a successful write) whose logOffset is at least that offset.
C2_AckHasPersistedCheckpoint ==
    \A a \in CheckpointAcks :
        \E c \in Calls : /\ c.kind = "write" /\ c.result = "ok"
                         /\ c.checkpoint.logOffset >= a.msg.offset

\* C2 as amended: every offset acknowledged on the checkpoint path follows a
\* persistence operation that settled successfully for a checkpoint whose logOffset
\* is at least that offset: a write, or the delete that is issued in its place
\* when the operation is started with clearCache set.
C2_AckHasSettledOperation ==
    \A a \in CheckpointAcks :
        \E c \in Calls : /\ c.result = "ok"
                         /\ c.checkpoint.logOffset >= a.msg.offset

C2_Witness ==
    /\ \E a \in CheckpointAcks : \E c \in Calls :
          c.kind = "delete" /\ c.result = "ok" /\ c.msg = a.msg
    /\ \E a \in CheckpointAcks : \E c \in Calls :
          c.kind = "write" /\ c.result = "ok" /\ c.msg = a.msg

\* C3: at most one checkpointManager call is outstanding
C3_OneOutstanding == Len(io.inflight) <= 1

C3_Witness == Len(io.inflight) = 1 /\ Queued /\ io.dropped # {}

\* C4: a request made while a call is outstanding takes the single queued slot and
\* starts nothing; the call started when the outstanding one settles is the queued
\* pair; a pair that was replaced in the slot is never handed to the checkpoint
\* manager and never acknowledged upstream.
C4_Coalescing ==
    /\ [](\A id \in io.dropped :
            /\ \A c \in Calls : c.msg.id # id
            /\ \A a \in CheckpointAcks : a.msg.id # id)
    /\ [][/\ (Len(io'.requests) > Len(io.requests) /\ lam.pendingP /\ ~lam.closed) =>
               /\ lam'.pendingCheckpointScribe = << Last(io'.requests).checkpoint >>
               /\ lam'.pendingCheckpointOffset = << Last(io'.requests).msg >>
               /\ io'.calls = io.calls
          /\ \A i \in 1..Len(io.calls) :
               (Settles(i) /\ Queued /\ Len(io'.calls) > Len(io.calls)) =>
                  /\ Len(io'.calls) = Len(io.calls) + 1
                  /\ Last(io'.calls).checkpoint = lam.pendingCheckpointScribe[1]
                  /\ Last(io'.calls).msg = lam.pendingCheckpointOffset[1]
                  /\ ~(lam'.pendingCheckpointScribe # <<>>)]_vars

C4_Witness ==
    /\ io.dropped # {}
    /\ \E i \in 2..Len(io.calls) :
          /\ io.calls[i].result = "ok"
          /\ \E id \in io.dropped : io.calls[i].msg.id > id
          /\ io.calls[i - 1].msg.id < io.calls[i].msg.id - 1

\* C5 as stated: once the outstanding call has settled the slot is free, and a
\* queued request of an open instance has been started; so pendingP without an
\* outstanding call, or a queued pair with nothing outstanding, never occurs.
C5_SlotReleased ==
    /\ lam.pendingP => io.inflight # <<>>
    /\ (Queued /\ ~lam.closed) => io.inflight # <<>>

\* a handler call for a batch that the instance has handled before
DuplicateDelivery == io'.deliveries = io.deliveries + 1 /\ fed' = fed

\* the fields the duplicate path must leave alone
ProcessingFields ==
    {"lastOffset", "sequenceNumber", "minSequenceNumber", "pendingMessages",
     "pendingCheckpointMessages", "protocolHandler", "protocolHead",
     "lastSummarySequenceNumber", "lastClientSummaryHead", "validParentSummaries"}

\* C6: a batch with offset <= lastOffset changes none of lastOffset, the counters,
\* the pending buffers, the protocol state, protocolHead and the summary fields,
\* sends nothing, calls neither the summary writer nor the checkpoint manager, and
\* is acknowledged upstream exactly when kafkaCheckpointOnReprocessingOp is set.
C6_DuplicateBatchFrame ==
    [][DuplicateDelivery =>
          /\ lam'.dcm.currentCheckpointMessage.offset <= lam.lastOffset
          /\ \A f \in ProcessingFields : lam'[f] = lam[f]
          /\ io'.sent = io.sent
          /\ io'.writerCalls = io.writerCalls
          /\ io'.calls = io.calls
          /\ cur'.pc = "idle"
          /\ IF cfg.kafkaCheckpointOnReprocessingOp
             THEN io'.acked = Append(io.acked, [msg |-> lam'.dcm.currentCheckpointMessage,
                                                path |-> "duplicate"])
             ELSE io'.acked = io.acked]_vars

C6_Witness ==
    /\ cur.last = "dup"
    /\ \E a \in Range(io.acked) : a.path = "duplicate" /\ a.msg.offset = lam.lastOffset
    /\ lam.protocolHead >= 1
    /\ io.sent # <<>>

\* C8: whenever lastSummarySequenceNumber is defined,
\* protocolHead <= lastSummarySequenceNumber <= sequenceNumber.
C8_SummarySequenceOrder ==
    lam.lastSummarySequenceNumber # Undef =>
        /\ lam.protocolHead <= lam.lastSummarySequenceNumber
        /\ lam.lastSummarySequenceNumber <= lam.sequenceNumber

C8_Witness ==
    /\ lam.protocolHead >= 1
    /\ lam.lastSummarySequenceNumber > lam.protocolHead
    /\ lam.lastSummarySequenceNumber <= lam.sequenceNumber

\* the highest sequence number the instance already knows of
KnownBefore ==
    Max(lam.sequenceNumber,
        IF lam.pendingMessages # <<>> THEN Last(lam.pendingMessages)
        ELSE lam.protocolHandler.sequenceNumber)

\* C9: the accepted ops have strictly increasing sequence numbers and
\* sequenceNumber is the last of them; an op is accepted only if its number is
\* above sequenceNumber and above the back of the pending buffer (the protocol
\* handler's number when the buffer is empty); a batch with a new offset whose
\* ops are all at or below these changes no buffer, counter, protocol state or
\* producer output.
C9_SkipsKnownOps ==
    /\ [](/\ \A i \in 1..(Len(io.accepted) - 1) : io.accepted[i] < io.accepted[i + 1]
          /\ io.accepted # <<>> => lam.sequenceNumber = Last(io.accepted))
    /\ [][/\ Len(io'.accepted) > Len(io.accepted) =>
               io'.accepted[Len(io.accepted) + 1] > KnownBefore
          /\ (fed' # fed /\ \A n \in Range(Last(fed').ops) : n <= KnownBefore) =>
               /\ lam'.lastOffset = Last(fed').msg.offset
               /\ \A f \in ProcessingFields \ {"lastOffset"} : lam'[f] = lam[f]
               /\ io'.sent = io.sent
               /\ io'.accepted = io.accepted
               /\ cur'.pc = "idle"]_vars

\* a first batch whose op is above sequenceNumber and was skipped all the same
C9_Witness ==
    /\ Len(fed) = 1
    /\ cur.last = "ok"
    /\ io.accepted = <<>>
    /\ \E n \in Range(fed[1].ops) : n > lam.sequenceNumber

\* C10 as stated: a step of the handler that sends a SummaryAck advances
\* protocolHead.
C10_AckAdvancesProtocolHead ==
    [][(\E i \in (Len(io.sent) + 1)..Len(io'.sent) : io'.sent[i].type = "summaryAck") =>
          lam'.protocolHead > lam.protocolHead]_vars

\* the op store when call i has settled: the ops inserted by the writes that
\* resolved up to then
StoreAt(i) ==
    UNION { Range(io.calls[j].inserts) :
              j \in { x \in 1..i : io.calls[x].kind = "write" /\ io.calls[x].result = "ok" } }

ReplayFields ==
    {"sequenceNumber", "minSequenceNumber", "protocolHandler", "pendingMessages",
     "protocolHead", "lastSummarySequenceNumber", "lastClientSummaryHead",
     "validParentSummaries"}

\* C7 as stated: when every batch has been handled, an instance built from any
\* persisted checkpoint c and the ops stored with it, fed the batches with offset
\* above c.logOffset, ends with the sequence numbers, protocol state, pending
\* buffer, protocolHead and summary fields of the original instance.
C7_ReplayReachesSameState ==
    (cur.pc = "idle" /\ io.throws = 0) =>
        \A i \in 1..Len(io.calls) :
            (io.calls[i].kind = "write" /\ io.calls[i].result = "ok") =>
                LET c == io.calls[i].checkpoint
                    r == Replay([lam |-> Reconstruct(c, StoreAt(i)), io |-> NewIo], log,
                                SelectSeq(fed, LAMBDA b : b.msg.offset > c.logOffset))
                IN r.last = "ok" => \A f \in ReplayFields : r.w.lam[f] = lam[f]

\* writeClientSummary of an internal writer is answered in this step
ClientSummaryAnswered == cur.pc = "awaitClientSummary" /\ cur' # cur /\ ~cfg.isExternal

\* the op whose summary is being written, with the answer it got in this step
AnsweredOp == log'[cur.op]

\* the producer output of this step starts with message m
SendsFirst(m) == Len(io'.sent) > Len(io.sent) /\ io'.sent[Len(io.sent) + 1] = m

\* protocol state and pending buffer are those of the snapshot the handler holds
RevertedToSnapshot ==
    /\ GetProtocolState(lam'.protocolHandler, FALSE) = cur.prev[1].protocolState
    /\ lam'.pendingMessages = cur.prev[1].pendingOps

SummaryHeads == {"protocolHead", "lastSummarySequenceNumber", "lastClientSummaryHead"}

\* a batch whose single op is a new Summarize that follows the last known op and
\* keeps the MSN: the snapshot the handler takes is the state before the batch
\* with the op pushed on the pending buffer
SnapshotIsPreSummaryState ==
    (/\ cur.pc = "idle" /\ cur'.pc = "awaitClientSummary"
     /\ fed' # fed /\ Len(log') = Len(log) + 1 /\ Last(fed').ops = << Len(log') >>
     /\ Len(log') = LastKnown(lam) + 1 /\ Len(log') > lam.sequenceNumber
     /\ Last(log').msn = lam.minSequenceNumber) =>
        cur'.prev = << [protocolState |-> GetProtocolState(lam.protocolHandler, FALSE),
                        pendingOps |-> Append(lam.pendingMessages, Len(log'))] >>

\* C11 as stated: whenever an internal writeClientSummary answers status=false, a
\* SummaryNack for the op is sent, and when the op is the last of its batch the
\* protocol state and the pending buffer are those of the pre-summary snapshot
\* and protocolHead, lastSummarySequenceNumber, lastClientSummaryHead are unchanged.
C11_NackAlwaysSent ==
    [][(ClientSummaryAnswered /\ AnsweredOp.res \in {"nack", "nackSendFail"}) =>
          /\ SendsFirst(SummaryNackMsg(AnsweredOp))
          /\ cur.rest = <<>> =>
                (RevertedToSnapshot /\ \A f \in SummaryHeads : lam'[f] = lam[f])]_vars

\* C11 as amended: when an internal writeClientSummary answers status=false and
\* the producer accepts the send, a SummaryNack for the op is sent and (the op
\* being the last of its batch) protocol state and pending buffer are those of
\* the snapshot taken before the drain to referenceSequenceNumber, the three
\* summary heads unchanged; when the producer rejects the send nothing is sent,
\* the same revert is done, and the handler rejects or goes on to the nack of its
\* catch block.
C11_NackRevertsToSnapshot ==
    [][/\ (ClientSummaryAnswered /\ AnsweredOp.res = "nack") =>
            /\ SendsFirst(SummaryNackMsg(AnsweredOp))
            /\ cur.rest = <<>> =>
                  (RevertedToSnapshot /\ \A f \in SummaryHeads : lam'[f] = lam[f])
       /\ (ClientSummaryAnswered /\ AnsweredOp.res = "nackSendFail") =>
            /\ io'.sent = io.sent
            /\ RevertedToSnapshot /\ \A f \in SummaryHeads : lam'[f] = lam[f]
            /\ IF cfg.ignoreStorageException THEN cur'.pc = "awaitCatchNack"
               ELSE cur'.pc = "idle" /\ cur'.last = "threw"
       /\ SnapshotIsPreSummaryState]_vars

\* a nacked Summarize whose drain to referenceSequenceNumber was undone: the ops
\* up to its referenceSequenceNumber are back in the pending buffer
C11_Witness ==
    /\ cur.pc = "idle" /\ cur.last = "ok" /\ io.sent # <<>>
    /\ Last(io.sent).type = "summaryNack"
    /\ LET op == log[Last(io.sent).seq] IN
         /\ op.res = "nack"
         /\ op.seq = lam.sequenceNumber
         /\ lam.protocolHandler.sequenceNumber < op.ref
         /\ lam.pendingMessages # <<>> /\ Head(lam.pendingMessages) <= op.ref

\* C12 as stated: after an internal client summary of the Summarize op with
\* sequenceNumber s has succeeded, protocolHead = s and lastSummarySequenceNumber = s.
C12_HeadIsSummarizeNumber ==
    [][(ClientSummaryAnswered /\ AnsweredOp.res = "ack") =>
          /\ lam'.protocolHead = AnsweredOp.seq
          /\ lam'.lastSummarySequenceNumber = AnsweredOp.seq]_vars

\* C12 as amended: after an internal client summary of the Summarize op with
\* sequenceNumber s has succeeded, protocolHead and lastSummarySequenceNumber are
\* both the protocol handler's sequenceNumber as left by the drain to the op's
\* referenceSequenceNumber: a number below s and above the previous protocolHead.
C12_HeadIsHandlerNumber ==
    [][(ClientSummaryAnswered /\ AnsweredOp.res = "ack") =>
          /\ lam'.protocolHead = lam.protocolHandler.sequenceNumber
          /\ lam'.lastSummarySequenceNumber = lam.protocolHandler.sequenceNumber
          /\ lam'.protocolHead < AnsweredOp.seq
          /\ lam'.protocolHead <= AnsweredOp.ref
          /\ lam'.protocolHead > lam.protocolHead]_vars

\* the shape of scenario S2: the Summarize op s refers to the op before it, the
\* summary succeeded from protocolHead 0, and both numbers are s - 1
C12_Witness ==
    /\ cur.pc = "idle" /\ cur.last = "ok"
    /\ \E n \in 2..Len(log) :
         /\ log[n].type = "summarize" /\ log[n].res = "ack" /\ log[n].ref = n - 1
         /\ lam.sequenceNumber = n
         /\ lam.protocolHead = n - 1
         /\ lam.lastSummarySequenceNumber = n - 1
         /\ \A i \in 1..(n - 1) : log[i].type = "op"

\* C13 as stated: every SummaryAck the producer received is directly followed by
\* the UpdateDSN{durableSequenceNumber = s, isClientSummary, ~clearCache} of the
\* same Summarize op s; both are sent while no checkpoint has been requested for
\* the batch of the op; the producer output is ordered by the ops that caused it.
C13_AckThenUpdateDSN ==
    /\ \A i \in 1..Len(io.sent) :
          io.sent[i].type = "summaryAck" =>
             /\ i + 1 <= Len(io.sent)
             /\ io.sent[i + 1] = UpdateDSNMsg(log[io.sent[i].seq], TRUE, FALSE)
    /\ cur.pc = "awaitClientSummary" =>
          \A r \in Range(io.requests) : r.msg.id # cur.msg.id
    /\ \A i \in 1..Len(io.sent) : \A j \in i..Len(io.sent) :
          io.sent[i].seq <= io.sent[j].seq

\* C14 as stated: a step of a handler call on an instance whose document is
\* corrupt calls neither writeClientSummary nor writeServiceSummary and sends
\* nothing to the producer.
C14_CorruptIsSilent ==
    [][lam.isDocumentCorrupt =>
          /\ io'.writerCalls = io.writerCalls
          /\ io'.sent = io.sent]_vars

\* the ops that pass the skip checks in this step
NewlyAccepted == { io'.accepted[i] : i \in (Len(io.accepted) + 1)..Len(io'.accepted) }

\* protocolHead changes in a step only to the summarySequenceNumber of a SummaryAck
\* op that the step takes from the stream
HeadFollowsStreamAck ==
    lam'.protocolHead # lam.protocolHead =>
        \E n \in NewlyAccepted :
            log'[n].type = "summaryAck" /\ log'[n].ssn = lam'.protocolHead

\* C15 as stated: with an external summary writer the producer never receives a
\* SummaryAck or a SummaryNack, whatever writeClientSummary answers, and
\* protocolHead changes only when a SummaryAck op of the stream is processed.
C15_ExternalNeverAcksOrNacks ==
    /\ [](cfg.isExternal =>
            \A m \in Range(io.sent) : m.type \notin {"summaryAck", "summaryNack"})
    /\ [][cfg.isExternal => HeadFollowsStreamAck]_vars

\* the part of C15 about protocolHead alone
C15_ExternalHeadOnlyFromStream == [][cfg.isExternal => HeadFollowsStreamAck]_vars

\* validParentSummaries is absent or within the configured limit
ParentsWithinLimit(l) ==
    l.validParentSummaries = <<>> \/ Len(l.validParentSummaries[1]) <= MaxTracked

\* C16 as stated: validParentSummaries, when present, never holds more than
\* maxTrackedServiceSummaryVersionsSinceLastClientSummary handles, the state
\* loaded from the initial checkpoint included.
C16_ParentsAlwaysWithinLimit == ParentsWithinLimit(lam)

\* C16 as amended: a list within the limit stays within it, and every step that
\* changes the list (a service summary, a SummaryAck op) leaves it absent or
\* within the limit; a longer list loaded from the initial checkpoint is kept
\* until then.
C16_ParentsTrimmedOnUpdate ==
    [][/\ ParentsWithinLimit(lam) => ParentsWithinLimit(lam')
       /\ lam'.validParentSummaries # lam.validParentSummaries => ParentsWithinLimit(lam')]_vars

\* two service summaries were written and the list holds the newest handle at
\* the limit
C16_Witness ==
    /\ lam.validParentSummaries # <<>>
    /\ Len(lam.validParentSummaries[1]) = MaxTracked
    /\ \E m, n \in 1..Len(log) :
         /\ m < n
         /\ log[m].type = "noClient" /\ log[m].res = "handle"
         /\ log[n].type = "noClient" /\ log[n].res = "handle"
         /\ Last(lam.validParentSummaries[1]) = n

\* every op in pendingCheckpointMessages is above
\* max(protocolHead, lastCheckpointInsertedNumber - maxPendingCheckpointMessagesLength)
AboveCap(l) ==
    \A n \in Range(l.pendingCheckpointMessages) :
        n > Max(l.protocolHead, l.lastCheckpointInsertedNumber - MaxPendingCkptLen)

\* C17 as stated: in every state the ops of pendingCheckpointMessages are above
\* max(protocolHead, lastCheckpointInsertedNumber - maxPendingCheckpointMessagesLength).
C17_BufferAlwaysAboveCap == AboveCap(lam)

\* C17 as amended: when a checkpoint write that inserted ops completes,
\* lastCheckpointInsertedNumber is the last op inserted and the ops left in
\* pendingCheckpointMessages are above
\* max(protocolHead, lastCheckpointInsertedNumber - maxPendingCheckpointMessagesLength);
\* no other step removes an op from the buffer.
C17_BufferTrimmedByWrite ==
    [][/\ \A i \in 1..Len(io.calls) :
            (/\ Settles(i) /\ io'.calls[i].result = "ok"
             /\ io.calls[i].kind = "write" /\ io.calls[i].inserts # <<>>) =>
                /\ lam'.lastCheckpointInsertedNumber = Last(io.calls[i].inserts)
                /\ AboveCap(lam')
       /\ (\A i \in 1..Len(io.calls) : ~Settles(i)) =>
            /\ Len(lam'.pendingCheckpointMessages) >= Len(lam.pendingCheckpointMessages)
            /\ SubSeq(lam'.pendingCheckpointMessages, 1, Len(lam.pendingCheckpointMessages))
                   = lam.pendingCheckpointMessages]_vars

\* protocolHead advanced while a write was outstanding, and the completed write
\* evicted the ops up to it
C17_Witness ==
    /\ io.inflight = <<>>
    /\ lam.protocolHead >= 1
    /\ lam.pendingCheckpointMessages # <<>>
    /\ Head(lam.pendingCheckpointMessages) = lam.protocolHead + 1
    /\ lam.lastCheckpointInsertedNumber - MaxPendingCkptLen < lam.protocolHead
    /\ \E c \in Calls : c.kind = "write" /\ c.result = "ok" /\ c.inserts # <<>>
                          /\ c.protocolHead < lam.protocolHead

\* the step in which the handler leaves the await of the service summary's
\* UpdateDSN send (the await of writeServiceSummary runs on into it unless the
\* cache is to be cleared)
ServiceSummaryCompletes ==
    /\ cur' # cur
    /\ \/ cur.pc = "awaitServiceSummary" /\ ~cfg.clearCacheAfterServiceSummary
       \/ cur.pc = "awaitServiceDSN"

\* the last n elements of s
LastN(s, n) == SubSeq(s, Max(1, Len(s) - n + 1), Len(s))

\* the handles of the list, none when it is absent
Parents(l) == IF l.validParentSummaries = <<>> THEN <<>> ELSE l.validParentSummaries[1]

\* the effects C18 names, for the NoClient op whose service summary gave a handle
ServiceSummaryEffects ==
    /\ SendsFirst(UpdateDSNMsg(AnsweredOp, FALSE, cfg.clearCacheAfterServiceSummary))
    /\ Cardinality({ i \in 1..Len(io'.sent) :
                        io'.sent[i].type = "updateDSN" /\ io'.sent[i].seq = cur.op }) = 1
    /\ cur.rest = <<>> =>
          /\ lam'.lastSummarySequenceNumber = cur.op
          /\ lam'.protocolHead = lam.protocolHead
          /\ lam'.lastClientSummaryHead = lam.lastClientSummaryHead
          /\ lam'.validParentSummaries = << LastN(Append(Parents(lam), cur.op), MaxTracked) >>

\* C18 as stated: whenever writeServiceSummary returns a handle for the NoClient
\* op s, one UpdateDSN{isClientSummary=false, durableSequenceNumber=s,
\* clearCache=clearCacheAfterServiceSummary} is sent, lastSummarySequenceNumber
\* becomes s, protocolHead and lastClientSummaryHead stay, and the handle is
\* appended to validParentSummaries, which is cut from the front to the limit.
C18_HandleAlwaysConfirmed ==
    [][(ServiceSummaryCompletes /\ AnsweredOp.res \in {"handle", "dsnSendFail"}) =>
          ServiceSummaryEffects]_vars

\* C18 as amended: the same effects whenever writeServiceSummary returns a handle
\* and the producer accepts the UpdateDSN; when the producer rejects it nothing
\* is sent and lastSummarySequenceNumber and validParentSummaries are not updated.
C18_HandleConfirmedWhenSent ==
    [][/\ (ServiceSummaryCompletes /\ AnsweredOp.res = "handle") => ServiceSummaryEffects
       /\ (ServiceSummaryCompletes /\ AnsweredOp.res = "dsnSendFail") =>
            /\ io'.sent = io.sent
            /\ lam'.lastSummarySequenceNumber = lam.lastSummarySequenceNumber
            /\ lam'.validParentSummaries = lam.validParentSummaries]_vars

\* a second service summary, with the cache cleared, whose handle replaced an
\* older one at the front of a full list
C18_Witness ==
    /\ cur.pc = "idle" /\ cur.last = "ok"
    /\ cfg.clearCacheAfterServiceSummary
    /\ io.sent # <<>>
    /\ LET n == lam.sequenceNumber IN
         /\ n >= 1 /\ log[n].type = "noClient" /\ log[n].res = "handle"
         /\ Last(io.sent) = UpdateDSNMsg(log[n], FALSE, TRUE)
         /\ lam.lastSummarySequenceNumber = n
         /\ lam.validParentSummaries # <<>>
         /\ Len(lam.validParentSummaries[1]) = MaxTracked
         /\ Last(lam.validParentSummaries[1]) = n
         /\ \E m \in 1..(n - 1) : log[m].type = "noClient" /\ log[m].res = "handle"

\* a checkpointManager.write is started in this step
StartsWrite == Len(io'.calls) > Len(io.calls) /\ Last(io'.calls).kind = "write"

\* the positions in the accepted ops (after this step) of the ops of a type
AcceptedOfType(type) == { i \in 1..Len(io'.accepted) : log'[io'.accepted[i]].type = type }

\* a NoClient op was processed and no ClientJoin after it
NoClientSinceJoin ==
    \E i \in AcceptedOfType("noClient") : \A j \in AcceptedOfType("join") : j < i

\* the batch that came with the queued message of the write holds a NoClient op
BatchHasNoClient(msg) ==
    \E i \in 1..Len(fed') :
        /\ fed'[i].msg.id = msg.id
        /\ \E n \in Range(fed'[i].ops) : log'[n].type = "noClient"

\* C19 as stated: a write is started as local (noActiveClients and globalOnly
\* both false) only if local checkpoints are enabled and no NoClient op has been
\* processed since the last ClientJoin; the write of the checkpoint issued for a
\* batch that held a NoClient op is global, also when it had been queued.
C19_LocalOnlyWithClients ==
    [][StartsWrite =>
          LET call == Last(io'.calls)
              global == IsGlobalCheckpoint(call.noActiveClients, call.globalOnly)
          IN /\ ~global => (cfg.localCheckpointEnabled /\ ~NoClientSinceJoin)
             /\ BatchHasNoClient(call.msg) => global]_vars

\* the first part of C19 alone
C19_LocalImpliesEnabledAndJoined ==
    [][StartsWrite =>
          LET call == Last(io'.calls) IN
          ~IsGlobalCheckpoint(call.noActiveClients, call.globalOnly) =>
              (cfg.localCheckpointEnabled /\ ~NoClientSinceJoin)]_vars

\* a batch with a new offset is handed to the handler in this step
NewBatch == fed' # fed

\* the first op of the new batch
FirstOp == log'[Head(Last(fed').ops)]

\* what a handler call that throws on a sequence gap leaves behind: the op is
\* not pushed, the counters and the protocol state are as before, and nothing
\* is requested from the checkpoint manager or acknowledged upstream
RejectedOnGap ==
    /\ cur'.pc = "idle" /\ cur'.last = "threw"
    /\ io'.throws = io.throws + 1
    /\ \A f \in ProcessingFields \ {"lastOffset"} : lam'[f] = lam[f]
    /\ io'.accepted = io.accepted
    /\ io'.requests = io.requests
    /\ io'.calls = io.calls
    /\ io'.acked = io.acked
    /\ io'.sent = io.sent

\* C20 as stated: without a Pending Message Reader, a batch whose first op is not
\* exactly one above the last known sequence number makes the handler throw,
\* with the op not pushed and nothing changed, written or acknowledged.
C20_ThrowsUnlessNext ==
    [][(NewBatch /\ ~cfg.hasReader /\ FirstOp.seq # LastKnown(lam) + 1) =>
          RejectedOnGap]_vars

\* C20 as amended: the same for an op that is above the last known sequence
\* number and above sequenceNumber (it passes both skip checks) and is not
\* exactly one above the last known number; an op at or below them is skipped
\* without an error.
C20_ThrowsOnGap ==
    [][/\ (/\ NewBatch /\ ~cfg.hasReader
            /\ ~Skips(lam, FirstOp)
            /\ FirstOp.seq # LastKnown(lam) + 1) => RejectedOnGap
       /\ (/\ NewBatch /\ ~cfg.hasReader
            /\ \A n \in Range(Last(fed').ops) : Skips(lam, log'[n])) =>
               (cur'.pc = "idle" /\ cur'.last = "ok" /\ io'.throws = io.throws)]_vars

\* a handler call was rejected for a gap after earlier ops had been processed
C20_Witness ==
    /\ ~cfg.hasReader
    /\ cur.pc = "idle" /\ cur.last = "threw"
    /\ fed # <<>> /\ Len(Last(fed).ops) = 1
    /\ Last(fed).ops[1] > LastKnown(lam) + 1
    /\ lam.lastOffset = Last(fed).msg.offset
    /\ io.accepted # <<>>
    /\ lam.sequenceNumber = Last(io.accepted)

\* the sequence numbers of the ops passed to processMessage in this step
AppliedInStep ==
    [ i \in 1..(Len(io'.applied) - Len(io.applied)) |-> io'.applied[Len(io.applied) + i].seq ]

\* the ops that passed the skip checks in this step, in order
AcceptedInStep == SubSeq(io'.accepted, Len(io.accepted) + 1, Len(io'.accepted))

\* readMessages resolves in this step
ReadReturns == cur.pc = "awaitRead" /\ cur' # cur

\* C21: an op n above the last known number k plus one, with a Pending Message
\* Reader, makes the handler ask readMessages(k+1, n-1) and wait; when the reader
\* answers, the returned ops and then the op are appended to the pending buffer
\* (contiguous from k+1 through n), no error is raised, and what the step drains
\* into the protocol handler is the front of that buffer, in order.
C21_GapHealed ==
    /\ [](cur.pc = "awaitRead" =>
            /\ cfg.hasReader
            /\ cur.op > LastKnown(lam) + 1
            /\ io.reads # <<>>
            /\ Last(io.reads) = [from |-> LastKnown(lam) + 1, to |-> cur.op - 1])
    /\ [][ReadReturns =>
            /\ io'.throws = io.throws
            /\ io'.reads = io.reads
            /\ AcceptedInStep # <<>> /\ Head(AcceptedInStep) = cur.op
            /\ AppliedInStep \o lam'.pendingMessages
                  = lam.pendingMessages \o FromTo(LastKnown(lam) + 1, cur.op - 1)
                                        \o AcceptedInStep]_vars

\* the shape of scenario S5: the buffer was empty, the reader returned two ops,
\* and the drain to the MSN of the op applied all three in order
C21_Witness ==
    /\ cur.pc = "idle" /\ cur.last = "ok" /\ io.throws = 0
    /\ Len(fed) = 1
    /\ io.reads = << [from |-> 1, to |-> 2] >>
    /\ io.accepted = << 3 >>
    /\ io.applied = << [seq |-> 1, at |-> 0], [seq |-> 2, at |-> 1], [seq |-> 3, at |-> 2] >>
    /\ lam.pendingMessages = <<>>
    /\ lam.protocolHandler.sequenceNumber = 3

\* the buffer holds consecutive numbers that start right above the protocol
\* handler's sequenceNumber
BufferFollowsHandler(l) ==
    l.pendingMessages =
        FromTo(l.protocolHandler.sequenceNumber + 1,
               l.protocolHandler.sequenceNumber + Len(l.pendingMessages))

\* every op passed to processMessage was one above the handler's number then
AppliedInOrder == \A i \in 1..Len(io.applied) : io.applied[i].seq = io.applied[i].at + 1

\* processMessage has thrown in an earlier or in this handler call
ProtocolError == \E r \in Range(io.requests) : r.reason = "MarkAsCorrupt"

\* C22 as stated: in every state the pending op buffer holds consecutive
\* sequence numbers starting at protocolHandler.sequenceNumber + 1, and every op
\* passed to processMessage was one above the handler's sequenceNumber at that
\* moment.
C22_BufferAlwaysFollowsHandler == BufferFollowsHandler(lam) /\ AppliedInOrder

\* C22 as amended: the same as long as processMessage has not thrown; the op for
\* which it throws has been taken from the buffer without being applied, so that
\* the buffer then starts two above the handler's sequenceNumber.
C22_BufferFollowsHandlerUntilError ==
    /\ [](~ProtocolError => (BufferFollowsHandler(lam) /\ AppliedInOrder))
    /\ [][(~ProtocolError /\ ProtocolError') =>
            /\ lam'.pendingMessages # <<>>
            /\ lam'.pendingMessages =
                  FromTo(lam'.protocolHandler.sequenceNumber + 2,
                         lam'.protocolHandler.sequenceNumber + 1 + Len(lam'.pendingMessages))
            /\ io'.applied = io.applied \/ Last(io'.applied).seq = Head(lam'.pendingMessages) - 2]_vars

\* a gap was filled from the reader, a summary was rolled back, and the ops that
\* had been applied for it were applied again from the restored handler
C22_Witness ==
    /\ ~ProtocolError /\ io.throws = 0
    /\ cur.pc = "idle" /\ cur.last = "ok"
    /\ io.reads # <<>>
    /\ \E i, j \in 1..Len(io.applied) :
          i < j /\ io.applied[i] = io.applied[j]
    /\ lam.pendingMessages # <<>>

\* a handler call has returned normally
Returned == cur.pc = "idle" /\ cur.last = "ok"

\* the largest sequence number ever passed to processMessage, 0 when none was
MaxApplied ==
    IF io.applied = <<>> THEN 0
    ELSE CHOOSE n \in { a.seq : a \in Range(io.applied) } :
             \A a \in Range(io.applied) : a.seq <= n

\* minSequenceNumber is the minimumSequenceNumber of the last op accepted
MsnIsLastObserved ==
    io.accepted # <<>> => lam.minSequenceNumber = log[Last(io.accepted)].msn

\* the answer to writeClientSummary handled in this step makes the handler revert
\* to its snapshot
RollsBack ==
    /\ cur.pc = "awaitClientSummary" /\ cur' # cur
    /\ \/ AnsweredOp.res = "throw"
       \/ ~cfg.isExternal /\ AnsweredOp.res # "ack"

\* the protocol handler's number after a step: that of the last op drained in
\* the step, else that of the snapshot when the step rolls back, else unchanged
HandlerFollowsDrain ==
    lam'.protocolHandler.sequenceNumber =
        IF AppliedInStep # <<>> THEN Last(AppliedInStep)
        ELSE IF RollsBack THEN cur.prev[1].protocolState.sequenceNumber
        ELSE lam.protocolHandler.sequenceNumber

\* no client summary has been rolled back so far
NoRollback ==
    \A n \in 1..Len(log) :
        log[n].type = "summarize" =>
            \/ log[n].res \in {"na", "ack"}
            \/ cfg.isExternal /\ log[n].res = "nack"

\* C23 as stated: whenever a handler call has returned normally, minSequenceNumber
\* is the minimumSequenceNumber of the last op accepted and the protocol
\* handler's sequenceNumber is the largest sequence number drained into it.
C23_HandlerAtMaxDrained ==
    Returned =>
        /\ MsnIsLastObserved
        /\ io.applied # <<>> => lam.protocolHandler.sequenceNumber = MaxApplied

\* C23 as amended: whenever a handler call has returned normally,
\* minSequenceNumber is the minimumSequenceNumber of the last op accepted; the
\* protocol handler's sequenceNumber is that of the last op drained into it,
\* except that a nacked or failed client summary puts it back to the number of
\* the pre-summary snapshot, below the ops drained for that summary; without
\* such a rollback it is the largest sequence number drained.
C23_HandlerAtLastDrainOrSnapshot ==
    /\ [](Returned =>
            /\ MsnIsLastObserved
            /\ (NoRollback /\ io.applied # <<>>) =>
                  lam.protocolHandler.sequenceNumber = MaxApplied)
    /\ [][HandlerFollowsDrain]_vars

\* a handler call returned after a nacked summary: the ops drained up to the
\* referenceSequenceNumber are above the protocol handler's number again
C23_Witness ==
    /\ Returned /\ io.throws = 0
    /\ io.accepted # <<>>
    /\ log[Last(io.accepted)].type = "summarize" /\ log[Last(io.accepted)].res = "nack"
    /\ ~cfg.isExternal
    /\ lam.minSequenceNumber = log[Last(io.accepted)].msn
    /\ lam.protocolHandler.sequenceNumber < MaxApplied

\* the requests made for a drain that threw
CorruptRequests == { r \in Range(io.requests) : r.reason = "MarkAsCorrupt" }

\* processMessage throws in this step
DrainThrowsInStep ==
    Len(io'.requests) > Len(io.requests) /\ Last(io'.requests).reason = "MarkAsCorrupt"

\* the queued message of the handler call that runs in this step
BatchMessage == IF cur.pc = "idle" THEN Last(fed').msg ELSE cur.msg

\* what the handler does when the drain throws: the document is marked corrupt,
\* one checkpoint carrying isCorrupt is requested for the batch's message with
\* the upstream acknowledgement to be skipped, and the call is rejected with the
\* rest of the boxcar unprocessed
MarksCorruptAndThrows ==
    /\ lam'.isDocumentCorrupt
    /\ Len(io'.requests) = Len(io.requests) + 1
    /\ Last(io'.requests).checkpoint.isCorrupt
    /\ Last(io'.requests).skip
    /\ Last(io'.requests).msg = BatchMessage
    /\ cur'.pc = "idle" /\ cur'.last = "threw"
    /\ io'.throws = io.throws + 1
    /\ lam'.sequenceNumber = Last(io'.accepted)
    /\ lam'.pendingMessages # <<>> /\ Last(lam'.pendingMessages) = lam'.sequenceNumber

\* C24 as stated: when processMessage throws in the drain, isDocumentCorrupt is
\* set, a MarkAsCorrupt checkpoint with isCorrupt = true is issued for the
\* message of the current batch, the handler throws without processing the rest
\* of the batch, and the offset of that message is never acknowledged upstream
\* through the checkpoint.
C24_CorruptCheckpointNeverAcked ==
    /\ [][DrainThrowsInStep => MarksCorruptAndThrows]_vars
    /\ [](\A r \in CorruptRequests : \A a \in CheckpointAcks : a.msg # r.msg)

\* the part of C24 that is about the handler call alone
C24_MarksCorruptAndThrows == [][DrainThrowsInStep => MarksCorruptAndThrows]_vars

\* a request that was neither handed to the checkpoint manager nor replaced in
\* the successor slot
Unstarted(r) == r.msg.id \notin io.dropped /\ \A c \in Calls : c.msg.id # r.msg.id

\* C25: on a closed instance no checkpointManager.write or delete is started:
\* a request of the handler or of the idle timer changes neither pendingP nor
\* the successor slot, and when an outstanding operation settles its completion
\* runs (pendingP is released, the result is recorded) while the queued
\* successor is not started: it is taken from the slot, or left in it when
\* context.checkpoint throws.
C25_NothingStartedAfterClose ==
    [][lam.closed =>
          /\ io'.calls = [ i \in 1..Len(io.calls) |->
                            IF Settles(i) THEN [io.calls[i] EXCEPT !.result = io'.calls[i].result]
                            ELSE io.calls[i] ]
          /\ Range(io'.inflight) \subseteq Range(io.inflight)
          /\ Len(io'.requests) > Len(io.requests) =>
                /\ lam'.pendingP = lam.pendingP
                /\ lam'.pendingCheckpointScribe = lam.pendingCheckpointScribe
                /\ lam'.pendingCheckpointOffset = lam.pendingCheckpointOffset
          /\ \A i \in 1..Len(io.calls) :
                (Settles(i) /\ (io.calls[i].kind = "write" \/ io'.calls[i].result = "ok")) =>
                   /\ ~lam'.pendingP
                   /\ io'.inflight = <<>>
                   /\ lam'.pendingCheckpointScribe \in {<<>>, lam.pendingCheckpointScribe}]_vars

\* a closed instance on which an outstanding operation has settled and dropped a
\* successor queued before the close, and on which a request made after the
\* close was dropped
C25_Witness ==
    /\ lam.closed /\ ~lam.pendingP /\ io.inflight = <<>> /\ ~Queued
    /\ \E r \in Range(io.requests) : ~r.closed /\ Unstarted(r)
    /\ \E r \in Range(io.requests) : r.closed /\ Unstarted(r)
    /\ \E c \in Calls : c.result = "ok"

\* the idle timer's callback requests a checkpoint in this step
IdleCheckpointFires ==
    Len(io'.requests) > Len(io.requests) /\ Last(io'.requests).reason = "IdleTime"

\* C26 as stated: an idle-time checkpoint is only ever requested for the newest
\* batch with a new offset that was handed to the handler; once a later batch is
\* being handled, the timer armed for an earlier batch requests nothing, so
\* nothing is written or acknowledged on its behalf.
C26_IdleTimerOfEarlierBatchNeverFires ==
    [][IdleCheckpointFires =>
          /\ fed # <<>>
          /\ Last(io'.requests).msg = Last(fed).msg
          /\ Last(io'.requests).msg.offset = lam.lastOffset]_vars

\* a handler call for a batch with a new offset returns normally in this step
BatchEnds ==
    /\ cur'.pc = "idle" /\ cur'.last = "ok"
    /\ cur.pc # "idle" \/ fed' # fed

\* the ops of the newest batch that passed the skip checks of the loop
SeenInBatch == { io'.accepted[i] : i \in (Last(fed').known + 1)..Len(io'.accepted) }

\* the reason the claim gives when the first three rules decide, "" otherwise
DecidedReason ==
    IF \E n \in SeenInBatch : log'[n].type = "noClient" THEN "NoClients"
    ELSE IF ~cfg.heuristicsEnable THEN "EveryMessage"
    ELSE IF lam.dcm.rawMessagesSinceCheckpoint + 1 >= MaxMessages THEN "MaxMessages"
    ELSE ""

\* one checkpoint is requested in this step, for the batch, with the reason
CheckpointsWith(reason) ==
    /\ Len(io'.requests) = Len(io.requests) + 1
    /\ Last(io'.requests).msg = BatchMessage
    /\ Last(io'.requests).reason = reason
    /\ ~Last(io'.requests).skip
    /\ lam'.dcm.idleTimer = <<>>
    /\ lam'.dcm.rawMessagesSinceCheckpoint = 0

\* no checkpoint is requested in this step and the idle timer is armed for the batch
ArmsIdleTimer ==
    /\ io'.requests = io.requests
    /\ io'.calls = io.calls
    /\ lam'.dcm.idleTimer # <<>>
    /\ lam'.dcm.idleTimer[1].msg = BatchMessage
    /\ lam'.dcm.rawMessagesSinceCheckpoint = lam.dcm.rawMessagesSinceCheckpoint + 1

NewlyDispatched == (Len(io.dispatched) + 1)..Len(io'.dispatched)

\* the handler's sequenceNumber when the handling of the i-th dispatched op is
\* over: what the next op of the step finds, or what the step leaves
HandlerAfter(i) ==
    IF i < Len(io'.dispatched) THEN io'.dispatched[i + 1].before
    ELSE lam'.protocolHandler.sequenceNumber

\* protocolHead at that moment
HeadAfter(i) ==
    IF i < Len(io'.dispatched) THEN io'.dispatched[i + 1].head
    ELSE lam'.protocolHead

\* (a) deli has acked the Summarize op
DeliAcked(i) == log'[io'.dispatched[i].seq].flag

\* (b) the writer is external and the op refers to a state behind the handler
ClientIsBehind(i) ==
    cfg.isExternal /\ log'[io'.dispatched[i].seq].ref < io'.dispatched[i].at

\* (c) neither, and after the drain to referenceSequenceNumber the handler is not
\* above protocolHead
NothingNewToSummarize(i) ==
    /\ ~DeliAcked(i) /\ ~ClientIsBehind(i)
    /\ io'.dispatched[i].head >= HandlerAfter(i)

\* the step ends in the call of writeClientSummary for the i-th dispatched op
WritesSummaryOf(i) ==
    cur'.pc = "awaitClientSummary" /\ cur'.op = io'.dispatched[i].seq

\* every message the producer has sent about a Summarize op in or before this
\* step was sent while that op's writeClientSummary was being answered
SentOnlyForWritten ==
    \A k \in (Len(io.sent) + 1)..Len(io'.sent) :
        log'[io'.sent[k].seq].type = "summarize" =>
            cur.pc \in {"awaitClientSummary", "awaitCatchNack"} /\ cur.op = io'.sent[k].seq

\* C28: a Summarize op that is deliAcked (a), or comes from a client behind the
\* handler of an external writer (b), or after whose drain to
\* referenceSequenceNumber protocolHead is not below the handler (c), is handled
\* without a call of writeClientSummary, without any producer message about it
\* and with protocolHead unchanged; in (a) and (b) the handler stays where the
\* drain to the op's minimumSequenceNumber left it. The producer sends messages
\* about a Summarize op only in answer to its writeClientSummary.
C28_IgnoredSummarize ==
    [][/\ SentOnlyForWritten
       /\ \A i \in NewlyDispatched :
            (/\ log'[io'.dispatched[i].seq].type = "summarize"
             /\ DeliAcked(i) \/ ClientIsBehind(i) \/ NothingNewToSummarize(i))
            => /\ ~WritesSummaryOf(i)
               /\ \A m \in Range(io'.sent) : m.seq # io'.dispatched[i].seq
               /\ HeadAfter(i) = io'.dispatched[i].head
               /\ DeliAcked(i) \/ ClientIsBehind(i)
                     => HandlerAfter(i) = io'.dispatched[i].at]_vars

\* an external writer has been through all three cases: op 1 asks for a summary
\* of the state already at protocolHead, op 2 raises the MSN to 1 and refers to
\* 0, op 3 is deliAcked; nothing was written or sent and the handler stands at
\* the MSN of op 3
C28_Witness ==
    /\ cfg.isExternal /\ Returned /\ Len(log) = 3 /\ Len(io.dispatched) = 3
    /\ \A n \in 1..3 : log[n].type = "summarize"
    /\ log[1].ref = 0 /\ io.dispatched[1].at = 0 /\ io.dispatched[1].head = 0
    /\ ~log[2].flag /\ log[2].ref = 0 /\ io.dispatched[2].at = 1
    /\ log[3].flag
    /\ io.writerCalls = 0 /\ io.sent = <<>>
    /\ lam.protocolHandler.sequenceNumber = 2 /\ lam.protocolHead = 0

\* ---- a client summary that fails
\* writeClientSummary, or a producer send of the try block, throws in this step
ClientSummaryThrows ==
    /\ cur.pc = "awaitClientSummary" /\ cur' # cur
    /\ log'[cur.op].res \in {"throw", "ackSendFail", "dsnSendFail", "nackSendFail"}

\* the handler's sequenceNumber when op n reached the Summarize branch
DispatchedAt(n) == (CHOOSE e \in Range(io.dispatched) : e.seq = n).at

\* protocol handler and pending buffer are what they were before the drain to
\* the referenceSequenceNumber: the handler where the MSN drain left it, the
\* buffer holding every op above it through the Summarize op (when no earlier
\* call was rejected with ops left out of the buffer), and both equal to the
\* snapshot the handler took
BackToPreSummary ==
    /\ lam'.protocolHandler.sequenceNumber = DispatchedAt(cur.op)
    /\ io.throws = 0 => lam'.pendingMessages = FromTo(DispatchedAt(cur.op) + 1, cur.op)
    /\ RevertedToSnapshot

\* the rejected call has requested no checkpoint and acknowledged nothing
RejectedWithoutCheckpoint ==
    /\ cur'.pc = "idle" /\ cur'.last = "threw" /\ io'.throws = io.throws + 1
    /\ io'.requests = io.requests /\ io'.calls = io.calls /\ io'.acked = io.acked
    /\ \A r \in Range(io'.requests) : r.msg # cur.msg

\* the sendSummaryNack of the catch block goes out in this step
CatchNackSent ==
    /\ cur.pc = "awaitCatchNack" /\ cur' # cur
    /\ log[cur.op].res # "nackSendFail"

\* the loop goes on after the op: the next op of the boxcar is accepted, or the
\* batch ends with its checkpoint request
GoesOnAfterOp ==
    IF cur.rest = <<>>
    THEN /\ BatchEnds
         /\ Len(io'.requests) = Len(io.requests) + 1
         /\ Last(io'.requests).msg = cur.msg
    ELSE Head(cur.rest) \in Range(AcceptedInStep)

ServiceSummaryThrows ==
    /\ cur.pc = "awaitServiceSummary" /\ cur' # cur
    /\ log'[cur.op].res = "throw"

\* no SummaryAck op is taken later in the step (such an op resets the list of
\* valid parents and, with an external writer, moves lastSummarySequenceNumber)
NoSummaryAckInStep == \A n \in Range(AcceptedInStep) : log'[n].type # "summaryAck"

\* the call that ends in this step handled a NoClient op whose service summary
\* threw
BatchHadFailedServiceSummary ==
    \E n \in SeenInBatch : log'[n].type = "noClient" /\ log'[n].res = "throw"

\* C30: when writeServiceSummary throws for a NoClient op and
\* ignoreStorageException is set, the call is not rejected for it, no UpdateDSN is
\* sent for the op, lastSummarySequenceNumber and validParentSummaries stay as
\* they were, isDocumentCorrupt stays as it was with no MarkAsCorrupt checkpoint,
\* the loop goes on and the call, when it ends, requests a NoClients checkpoint
\* for the batch; when the flag is not set isDocumentCorrupt becomes true and the
\* call is rejected.
C30_FailedServiceSummary ==
    [][/\ ServiceSummaryThrows =>
            IF cfg.ignoreStorageException
            THEN /\ \A m \in Range(io'.sent) : m.seq # cur.op
                 /\ NoSummaryAckInStep =>
                       /\ lam'.lastSummarySequenceNumber = lam.lastSummarySequenceNumber
                       /\ lam'.validParentSummaries = lam.validParentSummaries
                 /\ lam'.isDocumentCorrupt = lam.isDocumentCorrupt
                 /\ \A r \in Range(io'.requests) : r.msg = cur.msg => r.reason # "MarkAsCorrupt"
                 /\ cur.rest = <<>> => BatchEnds /\ io'.throws = io.throws
                 /\ cur.rest # <<>> /\ ~Skips(lam, log[Head(cur.rest)])
                       => Head(cur.rest) \in Range(AcceptedInStep)
            ELSE /\ lam'.isDocumentCorrupt
                 /\ cur'.pc = "idle" /\ cur'.last = "threw"
                 /\ io'.throws = io.throws + 1
       /\ (BatchEnds /\ cfg.ignoreStorageException /\ BatchHadFailedServiceSummary)
            => CheckpointsWith("NoClients")]_vars

\* storage exceptions are ignored and the heuristics are enabled; the service
\* summary of the NoClient op 1 threw: nothing was sent, no summary is recorded,
\* the document is not corrupt and the only checkpoint requested is the NoClients
\* checkpoint of that batch
C30_Witness ==
    /\ cfg.ignoreStorageException /\ cfg.heuristicsEnable /\ Returned
    /\ Len(log) = 1 /\ log[1].type = "noClient" /\ log[1].res = "throw"
    /\ io.sent = <<>> /\ io.throws = 0
    /\ lam.lastSummarySequenceNumber = Undef /\ lam.validParentSummaries = <<>>
    /\ ~lam.isDocumentCorrupt
    /\ Len(io.requests) = 1 /\ io.requests[1].reason = "NoClients"
    /\ io.requests[1].msg = fed[1].msg

\* ---- NoClient ops
\* the settings under which a service summary is to be written
ServiceSummaryWanted ==
    /\ cfg.generateServiceSummary
    /\ ~cfg.isEphemeralContainer
    /\ cfg.disableTransientTenantFiltering \/ ~cfg.transientTenant

\* the step ends in the call of writeServiceSummary for the i-th dispatched op
WritesServiceSummaryOf(i) ==
    /\ cur'.pc = "awaitServiceSummary" /\ cur'.op = io'.dispatched[i].seq
    /\ io'.writerCalls = io.writerCalls + 1

\* a ClientJoin op was taken after the i-th dispatched op in this step
JoinAfter(i) ==
    \E j \in NewlyDispatched : j > i /\ log'[io'.dispatched[j].seq].type = "join"

\* the call that ends in this step handled a NoClient op
BatchHadNoClient == \E n \in SeenInBatch : log'[n].type = "noClient"

\* C31: a NoClient op that reaches the dispatch makes the handler call
\* writeServiceSummary exactly when generateServiceSummary is set, the container
\* is not ephemeral and the tenant is not a filtered transient one; while the
\* writer is awaited noActiveClients and globalCheckpointOnly are set; when no
\* summary is written and the call ends in the same step, globalCheckpointOnly is
\* set unless a ClientJoin followed; and every call that handled a NoClient op
\* and returns requests a NoClients checkpoint for the batch and leaves
\* noActiveClients false.
C31_NoClientHandling ==
    [][/\ \A i \in NewlyDispatched :
            log'[io'.dispatched[i].seq].type = "noClient" =>
              /\ WritesServiceSummaryOf(i) <=> ServiceSummaryWanted
              /\ WritesServiceSummaryOf(i) =>
                    lam'.dcm.noActiveClients /\ lam'.globalCheckpointOnly
              /\ (~ServiceSummaryWanted /\ BatchEnds /\ ~JoinAfter(i)) =>
                    lam'.globalCheckpointOnly
       /\ ~ServiceSummaryWanted => io'.writerCalls = io.writerCalls
       /\ (BatchEnds /\ BatchHadNoClient) =>
            CheckpointsWith("NoClients") /\ ~lam'.dcm.noActiveClients]_vars

\* generateServiceSummary is set but the tenant is a transient one that is
\* filtered: the NoClient op 1 was handled without a call of the summary writer
\* and the call has returned with the NoClients checkpoint requested
C31_Witness ==
    /\ cfg.generateServiceSummary /\ ~cfg.isEphemeralContainer
    /\ cfg.transientTenant /\ ~cfg.disableTransientTenantFiltering
    /\ Returned /\ Len(log) = 1 /\ log[1].type = "noClient" /\ log[1].res = "na"
    /\ io.accepted = <<1>> /\ io.writerCalls = 0
    /\ Len(io.requests) = 1 /\ io.requests[1].reason = "NoClients"
    /\ ~lam.dcm.noActiveClients /\ lam.globalCheckpointOnly

\* ---- SummaryAck ops from the stream
\* the i-th dispatched op is the last SummaryAck op taken in this step
LastAckOfStep(i) ==
    /\ i \in NewlyDispatched
    /\ log'[io'.dispatched[i].seq].type = "summaryAck"
    /\ \A j \in NewlyDispatched : j > i => log'[io'.dispatched[j].seq].type # "summaryAck"

\* C32: when a SummaryAck op has been processed, lastClientSummaryHead is the
\* handle of its content, whether the content came in data or in contents, and
\* validParentSummaries is absent; with an external writer protocolHead and
\* lastSummarySequenceNumber are the summarySequenceNumber of the content, with
\* an internal writer they are what they were when the op reached the dispatch.
C32_SummaryAckFromStream ==
    [][\A i \in NewlyDispatched : LastAckOfStep(i) =>
          LET e == io'.dispatched[i]
              content == AckPayload(log'[e.seq])
          IN /\ lam'.lastClientSummaryHead = content.handle
             /\ lam'.validParentSummaries = <<>>
             /\ IF cfg.isExternal
                THEN /\ lam'.protocolHead = content.summaryProposal.summarySequenceNumber
                     /\ lam'.lastSummarySequenceNumber =
                            content.summaryProposal.summarySequenceNumber
                ELSE /\ lam'.protocolHead = e.head
                     /\ lam'.lastSummarySequenceNumber = e.lastSummary]_vars

\* an external writer: the service summary of the NoClient op 1 was recorded as a
\* valid parent, op 2 followed, and the SummaryAck op 3, whose content travels in
\* data and acks the summary of op 2, has reset the list and moved both numbers
\* from 1 and 0 to 2
C32_Witness ==
    /\ cfg.isExternal /\ Returned /\ Len(log) = 3
    /\ log[1].type = "noClient" /\ log[1].res = "handle"
    /\ log[3].type = "summaryAck" /\ log[3].flag /\ log[3].ssn = 2
    /\ Len(io.dispatched) = 3
    /\ io.dispatched[3].lastSummary = 1 /\ io.dispatched[3].head = 0
    /\ lam.lastClientSummaryHead = 2 /\ lam.validParentSummaries = <<>>
    /\ lam.protocolHead = 2 /\ lam.lastSummarySequenceNumber = 2

\* ---- ClientJoin and the kind of checkpoint
\* a ClientJoin op has been processed and no NoClient op after it
JoinedSinceNoClient ==
    \E i \in 1..Len(io.accepted) :
        /\ log[io.accepted[i]].type = "join"
        /\ \A j \in (i + 1)..Len(io.accepted) : log[io.accepted[j]].type # "noClient"

\* the same, the ClientJoin not sharing its batch with a NoClient op before it
JoinedInLaterBatch ==
    \E i \in 1..Len(io.accepted) :
        /\ log[io.accepted[i]].type = "join"
        /\ \A j \in (i + 1)..Len(io.accepted) : log[io.accepted[j]].type # "noClient"
        /\ \A b \in Range(fed) :
              io.accepted[i] \in Range(b.ops) =>
                 \A n \in Range(b.ops) : n < io.accepted[i] => log[n].type # "noClient"

\* C33 as stated: with local checkpoints enabled, when handler has returned and
\* a ClientJoin op has been processed with no NoClient op after it,
\* globalCheckpointOnly is false, also when the ClientJoin followed a NoClient op
\* in its batch; with local checkpoints disabled globalCheckpointOnly is true.
C33_JoinClearsGlobalOnly ==
    /\ (cfg.localCheckpointEnabled /\ Returned /\ JoinedSinceNoClient)
          => ~lam.globalCheckpointOnly
    /\ ~cfg.localCheckpointEnabled => lam.globalCheckpointOnly

\* the same for a ClientJoin that does not follow a NoClient op in its batch
C33_JoinInLaterBatchClearsGlobalOnly ==
    /\ (cfg.localCheckpointEnabled /\ Returned /\ JoinedInLaterBatch)
          => ~lam.globalCheckpointOnly
    /\ ~cfg.localCheckpointEnabled => lam.globalCheckpointOnly

\* ---- the queued checkpoint
\* the .then callback of this step starts the queued successor
FlushesQueued ==
    /\ lam.pendingCheckpointOffset # <<>>
    /\ lam'.pendingCheckpointOffset = <<>>
    /\ Len(io'.calls) = Len(io.calls) + 1
    /\ Last(io'.calls).msg = lam.pendingCheckpointOffset[1]

\* the request that was waiting in the successor slot: the last call of
\* checkpointCore for the queued message
QueuedRequest ==
    LET at == { i \in 1..Len(io.requests) : io.requests[i].msg = lam.pendingCheckpointOffset[1] }
    IN io.requests[CHOOSE i \in at : \A j \in at : j <= i]

\* C34: the checkpoint that was queued behind an outstanding operation is
\* started with the clearCache it was requested with (checkpointManager.write
\* when false, delete when true) and with the skipKafkaCheckpoint it was
\* requested with.
C34_QueuedKeepsItsParameters ==
    [][FlushesQueued =>
          /\ Last(io'.calls).kind = (IF QueuedRequest.clearCache THEN "delete" ELSE "write")
          /\ Last(io'.calls).skip = QueuedRequest.skip]_vars

\* the skipKafkaCheckpoint part alone
C34_QueuedKeepsSkip ==
    [][FlushesQueued => Last(io'.calls).skip = QueuedRequest.skip]_vars

\* the clearCache part alone
C34_QueuedKeepsClearCache ==
    [][FlushesQueued =>
          Last(io'.calls).kind = (IF QueuedRequest.clearCache THEN "delete" ELSE "write")]_vars

\* ---- the order of the checkpoints
\* the calls of checkpointManager.write made so far, in order
WriteCalls == SelectSeq(io.calls, LAMBDA c : c.kind = "write")

\* the upstream acknowledgements made from the .then callback, in order
CheckpointPathAcks == SelectSeq(io.acked, LAMBDA a : a.path = "checkpoint")

\* successive writes carry checkpoints whose logOffset and sequenceNumber do not
\* decrease
WritesInOrder ==
    \A i, j \in 1..Len(WriteCalls) : i < j =>
        /\ WriteCalls[i].checkpoint.logOffset <= WriteCalls[j].checkpoint.logOffset
        /\ WriteCalls[i].checkpoint.sequenceNumber <= WriteCalls[j].checkpoint.sequenceNumber

\* the offsets acknowledged from the checkpoint path do not decrease
AcksInOrder ==
    \A i, j \in 1..Len(CheckpointPathAcks) : i < j =>
        CheckpointPathAcks[i].msg.offset <= CheckpointPathAcks[j].msg.offset

\* C35: the checkpoints passed to successive checkpointManager.write calls have
\* non-decreasing logOffset and sequenceNumber, and the offsets acknowledged
\* upstream from the checkpoint path are non-decreasing.
C35_CheckpointsInOrder == WritesInOrder /\ AcksInOrder

\* the same as long as context.checkpoint has not thrown inside the callback
C35_InOrderWhileAcksSucceed ==
    (\A i \in 1..Len(io.calls) :
        (io.calls[i].result = "ok" /\ ~io.calls[i].skip)
           => \E a \in Range(CheckpointPathAcks) : a.msg = io.calls[i].msg)
    => (WritesInOrder /\ AcksInOrder)

\* ---- the answers to a Summarize op
\* the positions in the producer output of the SummaryAck and SummaryNack
\* messages about op n
AnswersTo(n) ==
    { i \in 1..Len(io.sent) :
        io.sent[i].seq = n /\ io.sent[i].type \in {"summaryAck", "summaryNack"} }

\* C36: for every Summarize op the producer has been sent at most one message of
\* type SummaryAck or SummaryNack.
C36_AtMostOneAnswer ==
    \A n \in 1..Len(log) : log[n].type = "summarize" => Cardinality(AnswersTo(n)) <= 1

\* the same for the ops whose UpdateDSN send did not fail after the SummaryAck
C36_AtMostOneAnswerUnlessDsnFails ==
    \A n \in 1..Len(log) :
        (log[n].type = "summarize" /\ log[n].res # "dsnSendFail")
           => Cardinality(AnswersTo(n)) <= 1

\* ---- re-delivery after a rejected call
\* the batch whose handler call was rejected is delivered again in this step
ThrownBatchRedelivered ==
    /\ cur.pc = "idle" /\ cur.last = "threw"
    /\ DuplicateDelivery
    /\ io'.handed.offset = io.handed.offset

\* the ops of the batch that came with the message
OpsOf(msg) == UNION { Range(b.ops) : b \in { x \in Range(fed) : x.msg.offset = msg.offset } }

\* C37: when the batch whose handler call threw is delivered again to the same
\* instance, the call does not take the duplicate path, acknowledges nothing
\* upstream, and takes up the first op of the batch that had not been processed.
C37_RedeliveryAfterThrowIsProcessed ==
    [][ThrownBatchRedelivered =>
          /\ cur'.last # "dup"
          /\ io'.acked = io.acked
          /\ \A n \in OpsOf(io.handed) :
                (n \notin Range(io.accepted)
                 /\ \A m \in OpsOf(io.handed) : m < n => m \in Range(io.accepted))
                => \/ n \in Range(io'.accepted)
                   \/ cur'.op = n
                   \/ cur'.last = "threw"]_vars

\* what the code does with such a re-delivery: the duplicate path
C37_RedeliveryAfterThrowIsDuplicate ==
    [][ThrownBatchRedelivered =>
          /\ cur'.last = "dup"
          /\ io'.accepted = io.accepted
          /\ io'.throws = io.throws
          /\ cfg.kafkaCheckpointOnReprocessingOp =>
                io'.acked = Append(io.acked, [msg |-> io'.handed, path |-> "duplicate"])]_vars

\* ---------------------------------------------------------------- C38
\* the ops inserted by the writes that have succeeded so far
Inserted(i) ==
    UNION { Range(i.calls[j].inserts) :
              j \in { k \in 1..Len(i.calls) :
                        i.calls[k].kind = "write" /\ i.calls[k].result = "ok" } }

\* the opsToInsert of every write are in strictly ascending sequenceNumber
InsertsAscending ==
    \A i \in 1..Len(io.calls) :
        \A j, k \in 1..Len(io.calls[i].inserts) :
            j < k => io.calls[i].inserts[j] < io.calls[i].inserts[k]

\* no op at or below an op already inserted is passed to write again
NoReinsert ==
    [][StartsWrite =>
          \A n \in Range(Last(io'.calls).inserts) :
              \A m \in Inserted(io') : n > m]_vars

\* every accepted op that no write has inserted yet is in the opsToInsert of
\* the write that starts
PassedUntilInserted ==
    [][StartsWrite =>
          \A n \in Range(io'.accepted) :
              n \notin Inserted(io') => n \in Range(Last(io'.calls).inserts)]_vars

\* C38: with enablePendingCheckpointMessages, every op accepted from a batch is
\* in the opsToInsert of each checkpointManager.write until one of them
\* succeeds, no op at or below the last inserted one is passed again, and the
\* opsToInsert of each write are strictly ascending.
C38_OpsInsertedOnce ==
    [][StartsWrite =>
          /\ \A n \in Range(io'.accepted) :
                n \notin Inserted(io') => n \in Range(Last(io'.calls).inserts)
          /\ \A n \in Range(Last(io'.calls).inserts) :
                \A m \in Inserted(io') : n > m
          /\ \A j, k \in 1..Len(Last(io'.calls).inserts) :
                j < k => Last(io'.calls).inserts[j] < Last(io'.calls).inserts[k]]_vars

\* what the code does: an accepted op that no write has inserted is passed to
\* the write that starts unless protocolHead has reached it in the meantime
C38_PassedUnlessBelowProtocolHead ==
    [][StartsWrite =>
          \A n \in Range(io'.accepted) :
              (n \notin Inserted(io') /\ n > lam'.protocolHead)
                  => n \in Range(Last(io'.calls).inserts)]_vars

\* ---------------------------------------------------------------- C39
\* the checkpoints generated in this step: for checkpointCore, for a summary writer
GeneratedForWrite ==
    { io'.requests[i].checkpoint : i \in (Len(io.requests) + 1)..Len(io'.requests) }

GeneratedForSummary ==
    { io'.scribes[i] : i \in (Len(io.scribes) + 1)..Len(io'.scribes) }

\* C39: isDocumentCorrupt never goes back from true to false, and every scribe
\* checkpoint generated while it is true, for a checkpoint write or for a
\* summary, carries isCorrupt = true.
C39_CorruptIsSticky ==
    [][/\ lam.isDocumentCorrupt => lam'.isDocumentCorrupt
       /\ lam'.isDocumentCorrupt =>
             \A c \in GeneratedForWrite \cup GeneratedForSummary : c.isCorrupt]_vars

\* a corrupt instance has generated a checkpoint for a write and one for a
\* summary, and the flag was raised during its lifetime
C39_Witness ==
    /\ lam.isDocumentCorrupt
    /\ \E r \in Range(io.requests) : r.checkpoint.isCorrupt /\ r.reason # "MarkAsCorrupt"
    /\ \E r \in Range(io.requests) : ~r.checkpoint.isCorrupt
    /\ \E c \in Range(io.scribes) : c.isCorrupt

\* ---------------------------------------------------------------- C40
\* handler has returned normally for the batch at offset o, the k-th delivery
ReturnedNormally(o, k) ==
    /\ cur.pc = "idle" /\ cur.last \in {"ok", "dup"}
    /\ io.handed.offset = o /\ io.deliveries = k

\* context.checkpoint has been called for an offset at or above o: from the
\* duplicate path, or in the callback of a persistence operation that resolved
AcknowledgedFrom(o) ==
    \/ \E a \in Range(io.acked) : a.msg.offset >= o
    \/ \E i \in 1..Len(io.calls) :
          io.calls[i].result = "ok" /\ ~io.calls[i].skip /\ io.calls[i].msg.offset >= o

\* what ends the obligation: another delivery, close, a corrupt document, a
\* call of the checkpoint manager that failed
Released(k) ==
    \/ io.deliveries > k
    \/ lam.closed
    \/ lam.isDocumentCorrupt
    \/ \E i \in 1..Len(io.calls) : io.calls[i].result = "failed"

\* context.checkpoint has thrown in the callback of a persistence operation
ContextCheckpointThrew ==
    \E i \in 1..Len(io.calls) :
        /\ io.calls[i].result = "ok" /\ ~io.calls[i].skip
        /\ \A a \in Range(io.acked) : a.msg # io.calls[i].msg

\* C40: once handler has returned normally for the batch at offset o, if no
\* further batch is delivered, the instance stays open, the document is not
\* corrupt and every checkpoint manager call succeeds, an offset >= o is
\* eventually acknowledged upstream, also when the checkpoint was requested
\* while another write was in flight.
C40_EventuallyAcknowledged ==
    \A o \in 1..MaxBatches : \A k \in 1..(MaxBatches + MaxRedeliveries) :
        ReturnedNormally(o, k) ~> (AcknowledgedFrom(o) \/ Released(k))

\* what the code does: the same as long as context.checkpoint has not thrown
C40_AcknowledgedUnlessContextThrows ==
    \A o \in 1..MaxBatches : \A k \in 1..(MaxBatches + MaxRedeliveries) :
        ReturnedNormally(o, k) ~>
            (AcknowledgedFrom(o) \/ Released(k) \/ ContextCheckpointThrew)

====
